---- MODULE Spec2Model ----
(***************************************************************************)
(* Model of package gcsurl (src/gcsurl.go): construction of a URLGenerator *)
(* from explicit configuration and the process environment, and the       *)
(* upload / download / validation calls on a constructed generator.       *)
(*                                                                         *)
(* Conventions.                                                            *)
(*  - A Go string the code inspects character by character (object names,  *)
(*    extensions, numeric and list-valued environment variables) is a      *)
(*    sequence of one-character strings: "a.pdf" is <<"a",".","p","d","f">>*)
(*    and "" is <<>>.  Strings the code only compares with "" or passes    *)
(*    on (bucket names, project ids, file paths of credentials) are TLA+   *)
(*    strings.                                                             *)
(*  - A Go pointer or optional value is a sequence of length at most one:  *)
(*    <<>> is nil, <<v>> points to v.                                      *)
(*  - A Go int / int64 / time.Duration is a 64-bit two's complement word,  *)
(*    written as 8 bytes, least significant first, so that products wrap   *)
(*    exactly as they do in the program.                                   *)
(*  - path/filepath is modelled for a build whose separator is "/".        *)
(***************************************************************************)
EXTENDS Integers, Sequences, FiniteSets, TLC

VARIABLES gen, last, calls

vars == <<gen, last, calls>>

(***************************************************************************)
(* 64-bit words                                                            *)
(***************************************************************************)

\* The word of a small non-negative integer (0 <= n < 2^31).
I64(n) == [i \in 1..8 |-> IF i <= 4 THEN (n \div (256 ^ (i - 1))) % 256 ELSE 0]

Zero64 == I64(0)

RECURSIVE AddLimbs(_, _, _, _, _)
AddLimbs(a, b, k, carry, acc) ==
    IF k > Len(a) THEN acc
    ELSE LET s == a[k] + b[k] + carry
         IN  AddLimbs(a, b, k + 1, s \div 256, Append(acc, s % 256))

\* a + b modulo 2^(8 * Len(a))
Add64(a, b) == AddLimbs(a, b, 1, 0, <<>>)

\* two's complement negation
Neg64(a) == Add64([i \in 1..Len(a) |-> 255 - a[i]], [i \in 1..Len(a) |-> IF i = 1 THEN 1 ELSE 0])

\* The word of a small integer of either sign (|n| < 2^31).
SInt(n) == IF n >= 0 THEN I64(n) ELSE Neg64(I64(-n))

RECURSIVE ColumnSum(_, _, _, _)
ColumnSum(a, b, k, i) ==
    IF i > k THEN 0 ELSE a[i] * b[k + 1 - i] + ColumnSum(a, b, k, i + 1)

RECURSIVE MulLimbs(_, _, _, _, _)
MulLimbs(a, b, k, carry, acc) ==
    IF k > Len(a) THEN acc
    ELSE LET s == carry + ColumnSum(a, b, k, 1)
         IN  MulLimbs(a, b, k + 1, s \div 256, Append(acc, s % 256))

\* a * b modulo 2^(8 * Len(a)): Go's wrapping multiplication when Len(a) = 8
Mul64(a, b) == MulLimbs(a, b, 1, 0, <<>>)

\* the same word in n >= Len(a) bytes, zero-extended (a non-negative)
Widen(a, n) == [i \in 1..n |-> IF i <= Len(a) THEN a[i] ELSE 0]

\* the exact product of two non-negative words, in 16 bytes (never wraps)
MulExact(a, b) == Mul64(Widen(a, 16), Widen(b, 16))

IsNeg64(a) == a[8] >= 128

\* Go's  a > 0  on a signed 64-bit word
IsPos64(a) == ~IsNeg64(a) /\ a # Zero64

(***************************************************************************)
(* Strings                                                                 *)
(***************************************************************************)

LowerOf ==
    ("A" :> "a") @@ ("B" :> "b") @@ ("C" :> "c") @@ ("D" :> "d") @@ ("E" :> "e") @@
    ("F" :> "f") @@ ("G" :> "g") @@ ("H" :> "h") @@ ("I" :> "i") @@ ("J" :> "j") @@
    ("K" :> "k") @@ ("L" :> "l") @@ ("M" :> "m") @@ ("N" :> "n") @@ ("O" :> "o") @@
    ("P" :> "p") @@ ("Q" :> "q") @@ ("R" :> "r") @@ ("S" :> "s") @@ ("T" :> "t") @@
    ("U" :> "u") @@ ("V" :> "v") @@ ("W" :> "w") @@ ("X" :> "x") @@ ("Y" :> "y") @@
    ("Z" :> "z")

\* strings.ToLower
ToLower(s) == [i \in 1..Len(s) |-> IF s[i] \in DOMAIN LowerOf THEN LowerOf[s[i]] ELSE s[i]]

\* strings.HasPrefix
HasPrefix(s, p) == Len(s) >= Len(p) /\ SubSeq(s, 1, Len(p)) = p

\* strings.HasSuffix
HasSuffix(s, x) == Len(s) >= Len(x) /\ SubSeq(s, Len(s) - Len(x) + 1, Len(s)) = x

\* strings.TrimSuffix
TrimSuffix(s, x) == IF HasSuffix(s, x) THEN SubSeq(s, 1, Len(s) - Len(x)) ELSE s

IsSpace(c) == c \in {" ", "\t", "\n", "\r"}

RECURSIVE TrimLeft(_)
TrimLeft(s) == IF s # <<>> /\ IsSpace(Head(s)) THEN TrimLeft(Tail(s)) ELSE s

RECURSIVE TrimRight(_)
TrimRight(s) ==
    IF s # <<>> /\ IsSpace(s[Len(s)]) THEN TrimRight(SubSeq(s, 1, Len(s) - 1)) ELSE s

\* strings.TrimSpace
TrimSpace(s) == TrimRight(TrimLeft(s))

RECURSIVE SplitFrom(_, _, _, _)
SplitFrom(s, c, i, cur) ==
    IF i > Len(s) THEN <<cur>>
    ELSE IF s[i] = c THEN <<cur>> \o SplitFrom(s, c, i + 1, <<>>)
    ELSE SplitFrom(s, c, i + 1, Append(cur, s[i]))

\* strings.Split(s, c) for a one-character separator c: always at least one field
Split(s, c) == SplitFrom(s, c, 1, <<>>)

(***************************************************************************)
(* path/filepath, separator "/"                                            *)
(***************************************************************************)

IsPathSeparator(c) == c = "/"

RECURSIVE ExtFrom(_, _)
ExtFrom(path, i) ==
    IF i < 1 \/ IsPathSeparator(path[i]) THEN <<>>
    ELSE IF path[i] = "." THEN SubSeq(path, i, Len(path))
    ELSE ExtFrom(path, i - 1)

\* filepath.Ext: the suffix beginning at the final dot of the final element
Ext(path) == ExtFrom(path, Len(path))

\* Clean's  out.w--; for out.w > dotdot && !IsPathSeparator(out.index(out.w)) { out.w-- }
RECURSIVE CleanBacktrack(_, _, _)
CleanBacktrack(out, w, dotdot) ==
    IF w > dotdot /\ ~IsPathSeparator(out[w + 1]) THEN CleanBacktrack(out, w - 1, dotdot)
    ELSE SubSeq(out, 1, w)

\* Clean's  for ; r < n && !IsPathSeparator(path[r]); r++ : the end of the element at r
RECURSIVE ElementEnd(_, _)
ElementEnd(path, r) ==
    IF r < Len(path) /\ ~IsPathSeparator(path[r + 1]) THEN ElementEnd(path, r + 1) ELSE r

\* Clean's main loop; r and dotdot count from 0 as in the Go source, Len(out) is out.w
RECURSIVE CleanLoop(_, _, _, _, _)
CleanLoop(path, r, out, dotdot, rooted) ==
    LET n == Len(path) IN
    IF r >= n THEN out
    ELSE IF IsPathSeparator(path[r + 1]) THEN
        CleanLoop(path, r + 1, out, dotdot, rooted)
    ELSE IF path[r + 1] = "." /\ (r + 1 = n \/ IsPathSeparator(path[r + 2])) THEN
        CleanLoop(path, r + 1, out, dotdot, rooted)
    ELSE IF path[r + 1] = "." /\ path[r + 2] = "."
            /\ (r + 2 = n \/ IsPathSeparator(path[r + 3])) THEN
        IF Len(out) > dotdot THEN
            CleanLoop(path, r + 2, CleanBacktrack(out, Len(out) - 1, dotdot), dotdot, rooted)
        ELSE IF ~rooted THEN
            LET o2 == (IF Len(out) > 0 THEN Append(out, "/") ELSE out) \o <<".", ".">>
            IN  CleanLoop(path, r + 2, o2, Len(o2), rooted)
        ELSE CleanLoop(path, r + 2, out, dotdot, rooted)
    ELSE
        LET o1 == IF (rooted /\ Len(out) # 1) \/ (~rooted /\ Len(out) # 0)
                  THEN Append(out, "/") ELSE out
            e  == ElementEnd(path, r)
        IN  CleanLoop(path, e, o1 \o SubSeq(path, r + 1, e), dotdot, rooted)

\* filepath.Clean
Clean(path) ==
    IF path = <<>> THEN <<".">>
    ELSE LET rooted == IsPathSeparator(path[1])
             out == IF rooted THEN CleanLoop(path, 1, <<"/">>, 1, TRUE)
                    ELSE CleanLoop(path, 0, <<>>, 0, FALSE)
         IN  IF out = <<>> THEN <<".">> ELSE out

\* the index of the final separator of path, 0 if there is none
RECURSIVE LastSepFrom(_, _)
LastSepFrom(path, i) ==
    IF i < 1 THEN 0 ELSE IF IsPathSeparator(path[i]) THEN i ELSE LastSepFrom(path, i - 1)

LastSep(path) == LastSepFrom(path, Len(path))

\* filepath.Dir: Clean of everything up to and including the final separator
Dir(path) == Clean(SubSeq(path, 1, LastSep(path)))

RECURSIVE StripTrailingSeps(_)
StripTrailingSeps(path) ==
    IF path # <<>> /\ IsPathSeparator(path[Len(path)])
    THEN StripTrailingSeps(SubSeq(path, 1, Len(path) - 1)) ELSE path

\* filepath.Base
Base(path) ==
    IF path = <<>> THEN <<".">>
    ELSE LET p == StripTrailingSeps(path)
             q == SubSeq(p, LastSep(p) + 1, Len(p))
         IN  IF q = <<>> THEN <<"/">> ELSE q

\* filepath.Join of two elements: empty elements are ignored, the rest is
\* joined by the separator and cleaned
Join(a, b) ==
    IF a # <<>> THEN Clean(a \o <<"/">> \o b)
    ELSE IF b # <<>> THEN Clean(b)
    ELSE <<>>

(***************************************************************************)
(* strconv                                                                 *)
(***************************************************************************)

DigitOf ==
    ("0" :> 0) @@ ("1" :> 1) @@ ("2" :> 2) @@ ("3" :> 3) @@ ("4" :> 4) @@
    ("5" :> 5) @@ ("6" :> 6) @@ ("7" :> 7) @@ ("8" :> 8) @@ ("9" :> 9)

RECURSIVE ParseDigits(_, _, _)
ParseDigits(s, i, n) ==
    IF i > Len(s) THEN [err |-> FALSE, val |-> n]
    ELSE IF s[i] \notin DOMAIN DigitOf THEN [err |-> TRUE, val |-> Zero64]
    ELSE ParseDigits(s, i + 1, Add64(Mul64(n, I64(10)), I64(DigitOf[s[i]])))

\* strconv.Atoi and strconv.ParseInt(s, 10, 64) on strings shorter than 19
\* characters (every such digit string fits 64 bits): an optional sign, then
\* one or more decimal digits; anything else is an error.
ParseInt(s) ==
    IF s = <<>> THEN [err |-> TRUE, val |-> Zero64]
    ELSE LET signed == s[1] \in {"-", "+"}
             digits == IF signed THEN Tail(s) ELSE s
             r == ParseDigits(digits, 1, Zero64)
         IN  IF digits = <<>> THEN [err |-> TRUE, val |-> Zero64]
             ELSE IF r.err THEN r
             ELSE [err |-> FALSE, val |-> IF s[1] = "-" THEN Neg64(r.val) ELSE r.val]

(***************************************************************************)
(* encoding/json and os.ReadFile, as far as the constructors use them      *)
(***************************************************************************)

\* The documents the model knows: a well-formed document decodes into the
\* ServiceAccount it describes, every other text fails to decode.
JSONDocuments ==
    ("{client_email:env@sa,private_key:KEY-ENV}" :>
        [ClientEmail |-> "env@sa", PrivateKey |-> "KEY-ENV"]) @@
    ("{client_email:file@sa,private_key:KEY-FILE}" :>
        [ClientEmail |-> "file@sa", PrivateKey |-> "KEY-FILE"]) @@
    ("{}" :> [ClientEmail |-> "", PrivateKey |-> ""])

\* json.Unmarshal(data, &sa)
Unmarshal(data) ==
    IF data \in DOMAIN JSONDocuments
    THEN [err |-> FALSE, sa |-> JSONDocuments[data]]
    ELSE [err |-> TRUE, sa |-> [ClientEmail |-> "", PrivateKey |-> ""]]

\* The files on disk: path -> contents.
Files ==
    ("/keys/sa.json" :> "{client_email:file@sa,private_key:KEY-FILE}") @@
    ("/keys/broken.json" :> "{client_email:")

\* os.ReadFile
ReadFile(path) ==
    IF path \in DOMAIN Files THEN [err |-> FALSE, data |-> Files[path]]
    ELSE [err |-> TRUE, data |-> ""]

(***************************************************************************)
(* Types                                                                   *)
(***************************************************************************)

\* time.Minute, in nanoseconds: 60,000,000,000 = 0x0D_F8_47_58_00
Minute == <<0, 88, 71, 248, 13, 0, 0, 0>>

\* the minutes of the built-in default expiry
DefaultExpiryMinutes == 15

\* time.Duration(minutes) * time.Minute
MinutesToDuration(minutes) == Mul64(minutes, Minute)

\* UploadRestrictions{AllowMultiple: true}
DefaultRestrictions ==
    [AllowMultiple |-> TRUE, AllowedExtensions |-> <<>>,
     MaxFileSizeMB |-> Zero64, MaxFileSizeBytes |-> Zero64]

\* DocumentUpload{}
EmptyUpload ==
    [UploadURL |-> <<>>, ExpiresAt |-> <<>>, GeneratedKey |-> <<>>, OriginalName |-> <<>>]

\* a constructor's failure handing the zero URLGenerator back with the error
CtorFailWithGenerator(e) ==
    [u |-> <<[serviceAccountKeyPath |-> "", svcAccount |-> <<>>, serviceAccountJSON |-> "",
              projectID |-> "", bucketName |-> "", defaultExpiry |-> Zero64,
              uploadRestrictions |-> DefaultRestrictions]>>,
     err |-> e]

\* a constructor's (nil, err)
CtorFail(e) == [u |-> <<>>, err |-> e]

(***************************************************************************)
(* NewUploadRestrictionsFromEnv                                            *)
(***************************************************************************)

\* the loop body without strings.TrimSpace
NormalizeExtensionUntrimmed(field) ==
    ToLower(IF HasPrefix(field, <<".">>) THEN field ELSE <<".">> \o field)

\* the loop body over the fields of GCS_ALLOWED_FILE_EXTENSIONS
NormalizeExtension(field) ==
    LET ext == TrimSpace(field)
    IN  ToLower(IF HasPrefix(ext, <<".">>) THEN ext ELSE <<".">> \o ext)

\* NewUploadRestrictionsFromEnv returning the policy whenever a variable is set
NewUploadRestrictionsFromEnvWhenSet(env) ==
    LET allowMultiple ==
            IF env.GCS_ALLOW_MULTIPLE_UPLOADS # <<>>
            THEN ToLower(env.GCS_ALLOW_MULTIPLE_UPLOADS) = <<"t", "r", "u", "e">>
            ELSE TRUE
        extList == Split(env.GCS_ALLOWED_FILE_EXTENSIONS, ",")
        allowedExtensions ==
            IF env.GCS_ALLOWED_FILE_EXTENSIONS # <<>>
            THEN [i \in 1..Len(extList) |-> NormalizeExtension(extList[i])]
            ELSE <<>>
        parsed == ParseInt(env.GCS_MAX_FILE_SIZE_MB)
        sized == env.GCS_MAX_FILE_SIZE_MB # <<>> /\ ~parsed.err /\ IsPos64(parsed.val)
        restrictions ==
            [AllowMultiple |-> allowMultiple,
             AllowedExtensions |-> allowedExtensions,
             MaxFileSizeMB |-> IF sized THEN parsed.val ELSE Zero64,
             MaxFileSizeBytes |->
                 IF sized THEN Mul64(Mul64(parsed.val, I64(1024)), I64(1024)) ELSE Zero64]
    IN  IF env.GCS_ALLOW_MULTIPLE_UPLOADS # <<>>
           \/ env.GCS_ALLOWED_FILE_EXTENSIONS # <<>>
           \/ env.GCS_MAX_FILE_SIZE_MB # <<>>
        THEN <<restrictions>>
        ELSE <<>>

\* NewUploadRestrictionsFromEnv: nil (<<>>) or a pointer to the policy
NewUploadRestrictionsFromEnv(env) ==
    LET allowMultiple ==
            IF env.GCS_ALLOW_MULTIPLE_UPLOADS # <<>>
            THEN ToLower(env.GCS_ALLOW_MULTIPLE_UPLOADS) = <<"t", "r", "u", "e">>
            ELSE TRUE
        extList == Split(env.GCS_ALLOWED_FILE_EXTENSIONS, ",")
        allowedExtensions ==
            IF env.GCS_ALLOWED_FILE_EXTENSIONS # <<>>
            THEN [i \in 1..Len(extList) |-> NormalizeExtension(extList[i])]
            ELSE <<>>
        parsed == ParseInt(env.GCS_MAX_FILE_SIZE_MB)
        sized == env.GCS_MAX_FILE_SIZE_MB # <<>> /\ ~parsed.err /\ IsPos64(parsed.val)
        restrictions ==
            [AllowMultiple |-> allowMultiple,
             AllowedExtensions |-> allowedExtensions,
             MaxFileSizeMB |-> IF sized THEN parsed.val ELSE Zero64,
             MaxFileSizeBytes |->
                 IF sized THEN Mul64(Mul64(parsed.val, I64(1024)), I64(1024)) ELSE Zero64]
    IN  IF ~restrictions.AllowMultiple
           \/ Len(restrictions.AllowedExtensions) > 0
           \/ IsPos64(restrictions.MaxFileSizeMB)
        THEN <<restrictions>>
        ELSE <<>>

(***************************************************************************)
(* Constructors                                                            *)
(***************************************************************************)

\* NewURLGeneratorWithRestrictions falling through to the credential file when
\* GCS_SERVICE_ACCOUNT_JSON does not parse
NewURLGeneratorWithRestrictionsFallingThrough(restrictions, env) ==
    LET bucketName == env.GCS_BUCKET_NAME
        projectID == env.GCP_PROJECT_ID
        expiryStr == env.GCS_DEFAULT_EXPIRY_MINUTES
        parsed == ParseInt(expiryStr)
        defaultExpiry ==
            IF expiryStr # <<>> /\ ~parsed.err /\ IsPos64(parsed.val)
            THEN MinutesToDuration(parsed.val)
            ELSE MinutesToDuration(I64(DefaultExpiryMinutes))
        uploadRestrictions ==
            IF restrictions # <<>> THEN restrictions[1] ELSE DefaultRestrictions
        credPath == env.GOOGLE_APPLICATION_CREDENTIALS
        fromEnv == Unmarshal(env.GCS_SERVICE_ACCOUNT_JSON)
        file == ReadFile(credPath)
        fromFile == Unmarshal(file.data)
        Generator(svcAccount, svcAccountJSON, serviceAccountKeyPath) ==
            [u |-> <<[serviceAccountKeyPath |-> serviceAccountKeyPath,
                      svcAccount |-> svcAccount,
                      serviceAccountJSON |-> svcAccountJSON,
                      projectID |-> projectID,
                      bucketName |-> bucketName,
                      defaultExpiry |-> defaultExpiry,
                      uploadRestrictions |-> uploadRestrictions]>>,
             err |-> "nil"]
    IN  IF bucketName = "" THEN CtorFail("GCS_BUCKET_NAME environment variable is required")
        ELSE IF env.GCS_SERVICE_ACCOUNT_JSON # "" /\ ~fromEnv.err
        THEN Generator(<<fromEnv.sa>>, env.GCS_SERVICE_ACCOUNT_JSON, "")
        ELSE IF credPath # "" THEN
            IF file.err THEN CtorFail("failed to read service account file")
            ELSE IF fromFile.err THEN CtorFail("failed to parse service account file")
            ELSE Generator(<<fromFile.sa>>, file.data, credPath)
        ELSE Generator(<<>>, "", "")

\* NewURLGeneratorWithRestrictions(restrictions), reading the environment env
NewURLGeneratorWithRestrictions(restrictions, env) ==
    LET bucketName == env.GCS_BUCKET_NAME
        projectID == env.GCP_PROJECT_ID
        expiryStr == env.GCS_DEFAULT_EXPIRY_MINUTES
        parsed == ParseInt(expiryStr)
        defaultExpiry ==
            IF expiryStr # <<>> /\ ~parsed.err /\ IsPos64(parsed.val)
            THEN MinutesToDuration(parsed.val)
            ELSE MinutesToDuration(I64(DefaultExpiryMinutes))
        uploadRestrictions ==
            IF restrictions # <<>> THEN restrictions[1] ELSE DefaultRestrictions
        credPath == env.GOOGLE_APPLICATION_CREDENTIALS
        fromEnv == Unmarshal(env.GCS_SERVICE_ACCOUNT_JSON)
        file == ReadFile(credPath)
        fromFile == Unmarshal(file.data)
        Generator(svcAccount, svcAccountJSON, serviceAccountKeyPath) ==
            [u |-> <<[serviceAccountKeyPath |-> serviceAccountKeyPath,
                      svcAccount |-> svcAccount,
                      serviceAccountJSON |-> svcAccountJSON,
                      projectID |-> projectID,
                      bucketName |-> bucketName,
                      defaultExpiry |-> defaultExpiry,
                      uploadRestrictions |-> uploadRestrictions]>>,
             err |-> "nil"]
    IN  IF bucketName = "" THEN CtorFail("GCS_BUCKET_NAME environment variable is required")
        ELSE IF env.GCS_SERVICE_ACCOUNT_JSON # "" THEN
            IF fromEnv.err THEN CtorFail("failed to parse GCS_SERVICE_ACCOUNT_JSON")
            ELSE Generator(<<fromEnv.sa>>, env.GCS_SERVICE_ACCOUNT_JSON, "")
        ELSE IF credPath # "" THEN
            IF file.err THEN CtorFail("failed to read service account file")
            ELSE IF fromFile.err THEN CtorFail("failed to parse service account file")
            ELSE Generator(<<fromFile.sa>>, file.data, credPath)
        ELSE Generator(<<>>, "", "")

\* NewURLGenerator taking its policy from NewUploadRestrictionsFromEnv
NewURLGeneratorFromEnvPolicy(env) ==
    NewURLGeneratorWithRestrictions(NewUploadRestrictionsFromEnv(env), env)

\* NewURLGenerator()
NewURLGenerator(env) == NewURLGeneratorWithRestrictions(<<>>, env)

\* NewURLGeneratorWithConfig(config), reading the environment env
NewURLGeneratorWithConfig(config, env) ==
    LET bucketName ==
            IF config.BucketName = "" THEN env.GCS_BUCKET_NAME ELSE config.BucketName
        expiryStr == env.GCS_DEFAULT_EXPIRY_MINUTES
        parsed == ParseInt(expiryStr)
        defaultExpiry ==
            IF IsPos64(config.DefaultExpiryMinutes)
            THEN MinutesToDuration(config.DefaultExpiryMinutes)
            ELSE IF expiryStr # <<>> /\ ~parsed.err /\ IsPos64(parsed.val)
            THEN MinutesToDuration(parsed.val)
            ELSE MinutesToDuration(I64(DefaultExpiryMinutes))
        uploadRestrictions ==
            IF config.UploadRestrictions # <<>> THEN config.UploadRestrictions[1]
            ELSE DefaultRestrictions
        fromEnv == Unmarshal(env.GCS_SERVICE_ACCOUNT_JSON)
        file == ReadFile(config.ServiceAccountKeyPath)
        fromFile == Unmarshal(file.data)
        Generator(svcAccount, svcAccountJSON) ==
            [u |-> <<[serviceAccountKeyPath |-> config.ServiceAccountKeyPath,
                      svcAccount |-> svcAccount,
                      serviceAccountJSON |-> svcAccountJSON,
                      projectID |-> config.ProjectID,
                      bucketName |-> bucketName,
                      defaultExpiry |-> defaultExpiry,
                      uploadRestrictions |-> uploadRestrictions]>>,
             err |-> "nil"]
    IN  IF bucketName = "" THEN CtorFail("bucket name is required")
        ELSE IF env.GCS_SERVICE_ACCOUNT_JSON # "" THEN
            IF fromEnv.err THEN CtorFail("failed to parse GCS_SERVICE_ACCOUNT_JSON")
            ELSE Generator(<<fromEnv.sa>>, env.GCS_SERVICE_ACCOUNT_JSON)
        ELSE IF config.ServiceAccountKeyPath # "" THEN
            IF file.err THEN CtorFail("failed to read service account file")
            ELSE IF fromFile.err THEN CtorFail("failed to parse service account file")
            ELSE Generator(<<fromFile.sa>>, file.data)
        ELSE Generator(<<>>, "")

\* Config{}: every field at its zero value
ZeroConfig ==
    [ProjectID |-> "", BucketName |-> "", ServiceAccountKeyPath |-> "",
     DefaultExpiryMinutes |-> Zero64, UploadRestrictions |-> <<>>]

\* NewURLGeneratorWithBucket without its check of the argument, so that an
\* empty argument falls back to GCS_BUCKET_NAME
NewURLGeneratorWithBucketOrEnv(bucketName, env) ==
    NewURLGeneratorWithConfig([ZeroConfig EXCEPT !.BucketName = bucketName], env)

\* NewURLGeneratorWithBucket(bucketName)
NewURLGeneratorWithBucket(bucketName, env) ==
    IF bucketName = "" THEN CtorFail("bucket name cannot be empty")
    ELSE NewURLGeneratorWithConfig([ZeroConfig EXCEPT !.BucketName = bucketName], env)

\* NewURLGeneratorWithBucketAndRestrictions(bucketName, restrictions)
NewURLGeneratorWithBucketAndRestrictions(bucketName, restrictions, env) ==
    IF bucketName = "" THEN CtorFail("bucket name cannot be empty")
    ELSE NewURLGeneratorWithConfig(
             [ZeroConfig EXCEPT !.BucketName = bucketName,
                                !.UploadRestrictions = restrictions], env)

(***************************************************************************)
(* fmt                                                                     *)
(***************************************************************************)

HexDigits == <<"0", "1", "2", "3", "4", "5", "6", "7", "8", "9", "a", "b", "c", "d", "e", "f">>

RECURSIVE HexFrom(_, _)
HexFrom(bytes, i) ==
    IF i > Len(bytes) THEN <<>>
    ELSE <<HexDigits[(bytes[i] \div 16) + 1], HexDigits[(bytes[i] % 16) + 1]>>
         \o HexFrom(bytes, i + 1)

\* fmt.Sprintf("%x", bytes): two lowercase hexadecimal digits for each byte
SprintfHex(bytes) == HexFrom(bytes, 1)

DecDigits == <<"0", "1", "2", "3", "4", "5", "6", "7", "8", "9">>

\* a non-negative word divided by 10, most significant byte first:
\* [q |-> quotient, r |-> remainder]
RECURSIVE DivMod10(_, _, _, _)
DivMod10(a, i, rem, q) ==
    IF i < 1 THEN [q |-> q, r |-> rem]
    ELSE LET cur == rem * 256 + a[i]
         IN  DivMod10(a, i - 1, cur % 10, [q EXCEPT ![i] = cur \div 10])

RECURSIVE DecimalOf(_)
DecimalOf(a) ==
    LET d == DivMod10(a, Len(a), 0, a)
    IN  IF d.q = [i \in 1..Len(a) |-> 0] THEN <<DecDigits[d.r + 1]>>
        ELSE Append(DecimalOf(d.q), DecDigits[d.r + 1])

\* fmt.Sprintf("%d", a) for a signed 64-bit word
SprintfDec(a) == IF IsNeg64(a) THEN <<"-">> \o DecimalOf(Neg64(a)) ELSE DecimalOf(a)

(***************************************************************************)
(* The signing provider, storage.SignedURL                                 *)
(***************************************************************************)

\* storage.SignedURL(bucket, name, opts).  The provider is outside this
\* package: whether it answers with a URL or an error is its choice (ok).
\* The URL it returns is determined by the request, so the model writes it
\* as the request itself; <<>> is the empty string.
SignedURL(request, ok) == IF ok THEN [url |-> <<request>>, err |-> FALSE]
                          ELSE [url |-> <<>>, err |-> TRUE]

(***************************************************************************)
(* Methods of URLGenerator                                                 *)
(***************************************************************************)

\* getServiceAccount answering the zero ServiceAccount without an error when
\* none is loaded
getServiceAccountOrZero(u) ==
    IF u.svcAccount # <<>> THEN [sa |-> u.svcAccount[1], err |-> "nil"]
    ELSE [sa |-> [ClientEmail |-> "", PrivateKey |-> ""], err |-> "nil"]

\* getServiceAccount
getServiceAccount(u) ==
    IF u.svcAccount # <<>> THEN [sa |-> u.svcAccount[1], err |-> "nil"]
    ELSE [sa |-> [ClientEmail |-> "", PrivateKey |-> ""],
          err |-> "service account not loaded"]

\* ValidateUpload's loop over the allow-list
RECURSIVE ExtensionAllowed(_, _, _)
ExtensionAllowed(ext, allowedExtensions, i) ==
    IF i > Len(allowedExtensions) THEN FALSE
    ELSE IF ext = allowedExtensions[i] THEN TRUE
    ELSE ExtensionAllowed(ext, allowedExtensions, i + 1)

\* ValidateUpload comparing the extension as written, without strings.ToLower
ValidateUploadCaseSensitive(u, filename) ==
    IF Len(u.uploadRestrictions.AllowedExtensions) > 0
       /\ ~ExtensionAllowed(Ext(filename), u.uploadRestrictions.AllowedExtensions, 1)
    THEN "file extension not allowed"
    ELSE "nil"

\* ValidateUpload: "nil" or the extension error
ValidateUpload(u, filename) ==
    IF Len(u.uploadRestrictions.AllowedExtensions) > 0
       /\ ~ExtensionAllowed(ToLower(Ext(filename)), u.uploadRestrictions.AllowedExtensions, 1)
    THEN "file extension not allowed"
    ELSE "nil"

\* hasRestrictions
hasRestrictions(u) ==
    \/ Len(u.uploadRestrictions.AllowedExtensions) > 0
    \/ IsPos64(u.uploadRestrictions.MaxFileSizeMB)
    \/ ~u.uploadRestrictions.AllowMultiple

\* HasUploadRestrictions
HasUploadRestrictions(u) == hasRestrictions(u)

ContentTypes ==
    (<<".", "p", "d", "f">> :> "application/pdf") @@
    (<<".", "j", "p", "g">> :> "image/jpeg") @@
    (<<".", "j", "p", "e", "g">> :> "image/jpeg") @@
    (<<".", "p", "n", "g">> :> "image/png") @@
    (<<".", "g", "i", "f">> :> "image/gif") @@
    (<<".", "w", "e", "b", "p">> :> "image/webp") @@
    (<<".", "m", "p", "3">> :> "audio/mpeg") @@
    (<<".", "m", "p", "4">> :> "video/mp4") @@
    (<<".", "a", "v", "i">> :> "video/x-msvideo") @@
    (<<".", "t", "x", "t">> :> "text/plain") @@
    (<<".", "c", "s", "v">> :> "text/csv") @@
    (<<".", "j", "s", "o", "n">> :> "application/json") @@
    (<<".", "x", "m", "l">> :> "application/xml") @@
    (<<".", "z", "i", "p">> :> "application/zip") @@
    (<<".", "d", "o", "c">> :> "application/msword") @@
    (<<".", "d", "o", "c", "x">> :>
        "application/vnd.openxmlformats-officedocument.wordprocessingml.document") @@
    (<<".", "x", "l", "s">> :> "application/vnd.ms-excel") @@
    (<<".", "x", "l", "s", "x">> :>
        "application/vnd.openxmlformats-officedocument.spreadsheetml.sheet")

\* getContentTypeFromExtension answering the empty string for an extension
\* the table does not hold
getContentTypeFromExtensionOrEmpty(ext) ==
    IF ext \in DOMAIN ContentTypes THEN ContentTypes[ext] ELSE ""

\* getContentTypeFromExtension
getContentTypeFromExtension(ext) ==
    IF ext \in DOMAIN ContentTypes THEN ContentTypes[ext] ELSE "application/octet-stream"

\* generateShortUUID; rnd is what crypto/rand.Read answers: an error, or 4 bytes
generateShortUUID(rnd) ==
    IF rnd.err THEN [uuid |-> <<>>, err |-> TRUE]
    ELSE [uuid |-> SprintfHex(rnd.bytes), err |-> FALSE]

\* generateUniqueObjectName putting the identifier after the extension:
\* originalname.ext_uuid
generateUniqueObjectNameSuffixing(originalPath, rnd) ==
    LET id == generateShortUUID(rnd)
        dir == Dir(originalPath)
        filename == Base(originalPath)
        uniqueFilename == filename \o <<"_">> \o id.uuid
    IN  IF id.err THEN [name |-> <<>>, err |-> TRUE]
        ELSE IF dir = <<".">> THEN [name |-> uniqueFilename, err |-> FALSE]
        ELSE [name |-> Join(dir, uniqueFilename), err |-> FALSE]

\* generateUniqueObjectName
generateUniqueObjectName(originalPath, rnd) ==
    LET id == generateShortUUID(rnd)
        dir == Dir(originalPath)
        filename == Base(originalPath)
        ext == Ext(filename)
        nameWithoutExt == TrimSuffix(filename, ext)
        uniqueFilename == id.uuid \o <<"_">> \o nameWithoutExt \o ext
    IN  IF id.err THEN [name |-> <<>>, err |-> TRUE]
        ELSE IF dir = <<".">> THEN [name |-> uniqueFilename, err |-> FALSE]
        ELSE [name |-> Join(dir, uniqueFilename), err |-> FALSE]

\* What a call gives back and what it did: the returned DocumentUpload and
\* error, and the requests it sent to the signing provider, in order.
CallResult(upload, err, signed) == [upload |-> upload, err |-> err, signed |-> signed]

\* GenerateSignedUploadURLWithExpiry choosing the content type by the
\* object name's extension
GenerateSignedUploadURLWithExpiryDetecting(u, bucketName, objectName, expiry, signOK) ==
    LET acct == getServiceAccount(u)
        opts == [bucket |-> bucketName, object |-> objectName,
                 Method |-> "PUT", Expires |-> <<expiry>>,
                 ContentType |-> getContentTypeFromExtension(ToLower(Ext(objectName))),
                 Headers |-> <<>>,
                 GoogleAccessID |-> acct.sa.ClientEmail, PrivateKey |-> acct.sa.PrivateKey]
        res == SignedURL(opts, signOK)
    IN  IF acct.err # "nil" THEN CallResult(EmptyUpload, acct.err, <<>>)
        ELSE IF res.err
        THEN CallResult(EmptyUpload, "failed to generate signed upload URL", <<opts>>)
        ELSE CallResult([UploadURL |-> res.url, ExpiresAt |-> <<expiry>>,
                         GeneratedKey |-> objectName, OriginalName |-> objectName],
                        "nil", <<opts>>)

\* GenerateSignedUploadURLWithExpiry asking the provider a second time when
\* its first answer is an error
GenerateSignedUploadURLWithExpiryRetrying(u, bucketName, objectName, expiry, signOK) ==
    LET acct == getServiceAccount(u)
        opts == [bucket |-> bucketName, object |-> objectName,
                 Method |-> "PUT", Expires |-> <<expiry>>,
                 ContentType |-> "application/octet-stream", Headers |-> <<>>,
                 GoogleAccessID |-> acct.sa.ClientEmail, PrivateKey |-> acct.sa.PrivateKey]
        res == SignedURL(opts, signOK)
    IN  IF acct.err # "nil" THEN CallResult(EmptyUpload, acct.err, <<>>)
        ELSE IF res.err
        THEN CallResult(EmptyUpload, "failed to generate signed upload URL", <<opts, opts>>)
        ELSE CallResult([UploadURL |-> res.url, ExpiresAt |-> <<expiry>>,
                         GeneratedKey |-> objectName, OriginalName |-> objectName],
                        "nil", <<opts>>)

\* GenerateSignedUploadURLWithExpiry
GenerateSignedUploadURLWithExpiry(u, bucketName, objectName, expiry, signOK) ==
    LET acct == getServiceAccount(u)
        opts == [bucket |-> bucketName, object |-> objectName,
                 Method |-> "PUT", Expires |-> <<expiry>>,
                 ContentType |-> "application/octet-stream", Headers |-> <<>>,
                 GoogleAccessID |-> acct.sa.ClientEmail, PrivateKey |-> acct.sa.PrivateKey]
        res == SignedURL(opts, signOK)
    IN  IF acct.err # "nil" THEN CallResult(EmptyUpload, acct.err, <<>>)
        ELSE IF res.err
        THEN CallResult(EmptyUpload, "failed to generate signed upload URL", <<opts>>)
        ELSE CallResult([UploadURL |-> res.url, ExpiresAt |-> <<expiry>>,
                         GeneratedKey |-> objectName, OriginalName |-> objectName],
                        "nil", <<opts>>)

ContentLengthPrefix ==
    <<"C", "o", "n", "t", "e", "n", "t", "-", "L", "e", "n", "g", "t", "h", ":">>

\* generateUploadURLWithRestrictions
generateUploadURLWithRestrictions(u, bucketName, objectName, expiry, signOK) ==
    LET acct == getServiceAccount(u)
        headers ==
            IF IsPos64(u.uploadRestrictions.MaxFileSizeBytes)
            THEN <<ContentLengthPrefix \o SprintfDec(u.uploadRestrictions.MaxFileSizeBytes)>>
            ELSE <<>>
        ext == ToLower(Ext(objectName))
        contentType ==
            IF ext # <<>> THEN getContentTypeFromExtension(ext)
            ELSE "application/octet-stream"
        opts == [bucket |-> bucketName, object |-> objectName,
                 Method |-> "PUT", Expires |-> <<expiry>>,
                 ContentType |-> contentType, Headers |-> headers,
                 GoogleAccessID |-> acct.sa.ClientEmail, PrivateKey |-> acct.sa.PrivateKey]
        res == SignedURL(opts, signOK)
    IN  IF acct.err # "nil" THEN CallResult(EmptyUpload, acct.err, <<>>)
        ELSE IF res.err
        THEN CallResult(EmptyUpload, "failed to generate validated upload URL", <<opts>>)
        ELSE CallResult([EmptyUpload EXCEPT !.UploadURL = res.url, !.ExpiresAt = <<expiry>>],
                        "nil", <<opts>>)

\* GenerateSignedUploadURLWithBucket returning the restricted result without
\* setting GeneratedKey and OriginalName
GenerateSignedUploadURLWithBucketUnnamed(u, bucketName, objectName, rnd, signOK) ==
    LET unique == generateUniqueObjectName(objectName, rnd)
        invalid == ValidateUpload(u, objectName)
        restricted == generateUploadURLWithRestrictions(
                          u, bucketName, unique.name, u.defaultExpiry, signOK)
        plain == GenerateSignedUploadURLWithExpiry(
                     u, bucketName, unique.name, u.defaultExpiry, signOK)
        Named(r) == [r EXCEPT !.upload.GeneratedKey = unique.name,
                              !.upload.OriginalName = objectName]
    IN  IF unique.err
        THEN CallResult(EmptyUpload, "failed to generate unique object name", <<>>)
        ELSE IF hasRestrictions(u) THEN
            IF invalid # "nil" THEN CallResult(EmptyUpload, invalid, <<>>)
            ELSE IF restricted.err # "nil"
            THEN CallResult(EmptyUpload, restricted.err, restricted.signed)
            ELSE restricted
        ELSE IF plain.err # "nil" THEN CallResult(EmptyUpload, plain.err, plain.signed)
        ELSE Named(plain)

\* GenerateSignedUploadURLWithBucket
GenerateSignedUploadURLWithBucket(u, bucketName, objectName, rnd, signOK) ==
    LET unique == generateUniqueObjectName(objectName, rnd)
        invalid == ValidateUpload(u, objectName)
        restricted == generateUploadURLWithRestrictions(
                          u, bucketName, unique.name, u.defaultExpiry, signOK)
        plain == GenerateSignedUploadURLWithExpiry(
                     u, bucketName, unique.name, u.defaultExpiry, signOK)
        Named(r) == [r EXCEPT !.upload.GeneratedKey = unique.name,
                              !.upload.OriginalName = objectName]
    IN  IF unique.err
        THEN CallResult(EmptyUpload, "failed to generate unique object name", <<>>)
        ELSE IF hasRestrictions(u) THEN
            IF invalid # "nil" THEN CallResult(EmptyUpload, invalid, <<>>)
            ELSE IF restricted.err # "nil"
            THEN CallResult(EmptyUpload, restricted.err, restricted.signed)
            ELSE Named(restricted)
        ELSE IF plain.err # "nil" THEN CallResult(EmptyUpload, plain.err, plain.signed)
        ELSE Named(plain)

\* GenerateSignedUploadURL asking the provider first and validating afterwards
GenerateSignedUploadURLSigningFirst(u, objectName, rnd, signOK) ==
    LET unique == generateUniqueObjectName(objectName, rnd)
        invalid == ValidateUpload(u, objectName)
        restricted == generateUploadURLWithRestrictions(
                          u, u.bucketName, unique.name, u.defaultExpiry, signOK)
        plain == GenerateSignedUploadURLWithExpiry(
                     u, u.bucketName, unique.name, u.defaultExpiry, signOK)
        Named(r) == [r EXCEPT !.upload.GeneratedKey = unique.name,
                              !.upload.OriginalName = objectName]
    IN  IF unique.err
        THEN CallResult(EmptyUpload, "failed to generate unique object name", <<>>)
        ELSE IF hasRestrictions(u) THEN
            IF restricted.err # "nil"
            THEN CallResult(EmptyUpload, restricted.err, restricted.signed)
            ELSE IF invalid # "nil" THEN CallResult(EmptyUpload, invalid, restricted.signed)
            ELSE Named(restricted)
        ELSE IF plain.err # "nil" THEN CallResult(EmptyUpload, plain.err, plain.signed)
        ELSE Named(plain)

\* GenerateSignedUploadURL looking the signing identity up before it
\* validates the filename
GenerateSignedUploadURLCredentialFirst(u, objectName, rnd, signOK) ==
    LET unique == generateUniqueObjectName(objectName, rnd)
        acct == getServiceAccount(u)
        invalid == ValidateUpload(u, objectName)
        restricted == generateUploadURLWithRestrictions(
                          u, u.bucketName, unique.name, u.defaultExpiry, signOK)
        plain == GenerateSignedUploadURLWithExpiry(
                     u, u.bucketName, unique.name, u.defaultExpiry, signOK)
        Named(r) == [r EXCEPT !.upload.GeneratedKey = unique.name,
                              !.upload.OriginalName = objectName]
    IN  IF unique.err
        THEN CallResult(EmptyUpload, "failed to generate unique object name", <<>>)
        ELSE IF acct.err # "nil" THEN CallResult(EmptyUpload, acct.err, <<>>)
        ELSE IF hasRestrictions(u) THEN
            IF invalid # "nil" THEN CallResult(EmptyUpload, invalid, <<>>)
            ELSE IF restricted.err # "nil"
            THEN CallResult(EmptyUpload, restricted.err, restricted.signed)
            ELSE Named(restricted)
        ELSE IF plain.err # "nil" THEN CallResult(EmptyUpload, plain.err, plain.signed)
        ELSE Named(plain)

\* GenerateSignedUploadURL
GenerateSignedUploadURL(u, objectName, rnd, signOK) ==
    LET unique == generateUniqueObjectName(objectName, rnd)
        invalid == ValidateUpload(u, objectName)
        restricted == generateUploadURLWithRestrictions(
                          u, u.bucketName, unique.name, u.defaultExpiry, signOK)
        plain == GenerateSignedUploadURLWithExpiry(
                     u, u.bucketName, unique.name, u.defaultExpiry, signOK)
        Named(r) == [r EXCEPT !.upload.GeneratedKey = unique.name,
                              !.upload.OriginalName = objectName]
    IN  IF unique.err
        THEN CallResult(EmptyUpload, "failed to generate unique object name", <<>>)
        ELSE IF hasRestrictions(u) THEN
            IF invalid # "nil" THEN CallResult(EmptyUpload, invalid, <<>>)
            ELSE IF restricted.err # "nil"
            THEN CallResult(EmptyUpload, restricted.err, restricted.signed)
            ELSE Named(restricted)
        ELSE IF plain.err # "nil" THEN CallResult(EmptyUpload, plain.err, plain.signed)
        ELSE Named(plain)

\* GenerateSignedUploadURLWithOriginalName deriving a unique key as
\* GenerateSignedUploadURL does
GenerateSignedUploadURLWithOriginalNameDeriving(u, objectName, signOK) ==
    GenerateSignedUploadURL(u, objectName, [err |-> FALSE, bytes |-> <<0, 0, 0, 0>>], signOK)

\* GenerateSignedUploadURLWithOriginalName without its call of ValidateUpload
GenerateSignedUploadURLWithOriginalNameUnvalidated(u, objectName, signOK) ==
    LET restricted == generateUploadURLWithRestrictions(
                          u, u.bucketName, objectName, u.defaultExpiry, signOK)
        plain == GenerateSignedUploadURLWithExpiry(
                     u, u.bucketName, objectName, u.defaultExpiry, signOK)
    IN  IF hasRestrictions(u) THEN
            IF restricted.err # "nil"
            THEN CallResult(EmptyUpload, restricted.err, restricted.signed)
            ELSE [restricted EXCEPT !.upload.GeneratedKey = objectName,
                                    !.upload.OriginalName = objectName]
        ELSE IF plain.err # "nil" THEN CallResult(EmptyUpload, plain.err, plain.signed)
        ELSE plain

\* GenerateSignedUploadURLWithOriginalName
GenerateSignedUploadURLWithOriginalName(u, objectName, signOK) ==
    LET invalid == ValidateUpload(u, objectName)
        restricted == generateUploadURLWithRestrictions(
                          u, u.bucketName, objectName, u.defaultExpiry, signOK)
        plain == GenerateSignedUploadURLWithExpiry(
                     u, u.bucketName, objectName, u.defaultExpiry, signOK)
    IN  IF hasRestrictions(u) THEN
            IF invalid # "nil" THEN CallResult(EmptyUpload, invalid, <<>>)
            ELSE IF restricted.err # "nil"
            THEN CallResult(EmptyUpload, restricted.err, restricted.signed)
            ELSE [restricted EXCEPT !.upload.GeneratedKey = objectName,
                                    !.upload.OriginalName = objectName]
        ELSE IF plain.err # "nil" THEN CallResult(EmptyUpload, plain.err, plain.signed)
        ELSE plain

\* What a download call gives back and what it did.
DownloadResult(url, err, signed) == [url |-> url, err |-> err, signed |-> signed]

\* GenerateSignedDownloadURLWithExpiry applying the upload allow-list to the
\* object name
GenerateSignedDownloadURLWithExpiryValidated(u, bucketName, objectName, expiry, signOK) ==
    LET acct == getServiceAccount(u)
        opts == [bucket |-> bucketName, object |-> objectName,
                 Method |-> "GET", Expires |-> <<expiry>>,
                 ContentType |-> "", Headers |-> <<>>,
                 GoogleAccessID |-> acct.sa.ClientEmail, PrivateKey |-> acct.sa.PrivateKey]
        res == SignedURL(opts, signOK)
    IN  IF ValidateUpload(u, objectName) # "nil"
        THEN DownloadResult(<<>>, ValidateUpload(u, objectName), <<>>)
        ELSE IF acct.err # "nil" THEN DownloadResult(<<>>, acct.err, <<>>)
        ELSE IF res.err
        THEN DownloadResult(<<>>, "failed to generate signed download URL", <<opts>>)
        ELSE DownloadResult(res.url, "nil", <<opts>>)

\* GenerateSignedDownloadURLWithExpiry
GenerateSignedDownloadURLWithExpiry(u, bucketName, objectName, expiry, signOK) ==
    LET acct == getServiceAccount(u)
        opts == [bucket |-> bucketName, object |-> objectName,
                 Method |-> "GET", Expires |-> <<expiry>>,
                 ContentType |-> "", Headers |-> <<>>,
                 GoogleAccessID |-> acct.sa.ClientEmail, PrivateKey |-> acct.sa.PrivateKey]
        res == SignedURL(opts, signOK)
    IN  IF acct.err # "nil" THEN DownloadResult(<<>>, acct.err, <<>>)
        ELSE IF res.err
        THEN DownloadResult(<<>>, "failed to generate signed download URL", <<opts>>)
        ELSE DownloadResult(res.url, "nil", <<opts>>)

\* GenerateSignedDownloadURL
GenerateSignedDownloadURL(u, objectName, signOK) ==
    GenerateSignedDownloadURLWithExpiry(u, u.bucketName, objectName, u.defaultExpiry, signOK)

\* GenerateSignedDownloadURLWithBucket
GenerateSignedDownloadURLWithBucket(u, bucketName, objectName, signOK) ==
    GenerateSignedDownloadURLWithExpiry(u, bucketName, objectName, u.defaultExpiry, signOK)

\* GetBucketName
GetBucketName(u) == u.bucketName

\* GetProjectID
GetProjectID(u) == u.projectID

\* GetDefaultExpiry
GetDefaultExpiry(u) == u.defaultExpiry

\* GetUploadRestrictions
GetUploadRestrictions(u) == u.uploadRestrictions

(***************************************************************************)
(* Inputs                                                                  *)
(***************************************************************************)

\* the longest object name enumerated character by character
MaxPathLen == 3

SeqsUpTo(S, n) == UNION {[1..k -> S] : k \in 0..n}

\* every object name of at most MaxPathLen characters over "/", "." and "a"
ShortPaths == SeqsUpTo({"/", ".", "a"}, MaxPathLen)

\* object names of the documentation and of the cases the package's
\* documentation talks about
NamedPaths ==
    { <<"a", ".", "p", "d", "f">>,                                    \* a.pdf
      <<"A", ".", "P", "D", "F">>,                                    \* A.PDF
      <<"a", ".", "j", "p", "g">>,                                    \* a.jpg
      <<"u", "/", "1", "/", "c", ".", "p", "d", "f">>,                \* u/1/c.pdf
      <<"a", "/", "/", "b", "/", "f", ".", "p", "d", "f">>,           \* a//b/f.pdf
      <<".", "/", "f", ".", "p", "d", "f">>,                          \* ./f.pdf
      <<"a", "/", ".", ".", "/", "b", "/", "f", ".", "p", "d", "f">>, \* a/../b/f.pdf
      <<"d", ".", "p", "d", "f", "/">>,                               \* d.pdf/
      <<"d", "/", "f">>,                                              \* d/f
      <<>> }                                                          \* the empty name

AllPaths == ShortPaths \cup NamedPaths

\* what crypto/rand.Read may answer
Entropy ==
    {[err |-> TRUE, bytes |-> <<0, 0, 0, 0>>]} \cup
    {[err |-> FALSE, bytes |-> b] : b \in {<<0, 0, 0, 0>>, <<161, 178, 195, 212>>}}

OtherBuckets == {"other-bucket"}

\* explicit expiries of the ...WithExpiry calls: one hour
Expiries == {MinutesToDuration(I64(60))}

TenMiB == Mul64(Mul64(I64(10), I64(1024)), I64(1024))

ExtPdfA == <<<<".", "p", "d", "f">>, <<".", "a">>>>

\* policies a caller builds by hand
HandBuiltRestrictions ==
    { DefaultRestrictions,
      [DefaultRestrictions EXCEPT !.AllowMultiple = FALSE],
      [DefaultRestrictions EXCEPT !.AllowedExtensions = ExtPdfA],
      [DefaultRestrictions EXCEPT !.AllowedExtensions = <<<<".", "P", "D", "F">>>>],
      [DefaultRestrictions EXCEPT !.MaxFileSizeMB = I64(10)],
      [DefaultRestrictions EXCEPT !.MaxFileSizeMB = I64(10), !.MaxFileSizeBytes = TenMiB],
      [DefaultRestrictions EXCEPT !.MaxFileSizeBytes = TenMiB],
      [DefaultRestrictions EXCEPT !.AllowedExtensions = ExtPdfA,
                                  !.MaxFileSizeMB = I64(10), !.MaxFileSizeBytes = TenMiB] }

\* the restrictions argument: nil or a pointer to a hand-built policy
RestrictionPointers == {<<>>} \cup {<<r>> : r \in HandBuiltRestrictions}

FewRestrictionPointers ==
    {<<>>} \cup
    {<<r>> : r \in { [DefaultRestrictions EXCEPT !.AllowMultiple = FALSE],
                     [DefaultRestrictions EXCEPT !.AllowedExtensions = ExtPdfA],
                     [DefaultRestrictions EXCEPT !.MaxFileSizeMB = I64(10)],
                     [DefaultRestrictions EXCEPT !.AllowedExtensions = ExtPdfA,
                          !.MaxFileSizeMB = I64(10), !.MaxFileSizeBytes = TenMiB] }}

BucketArguments == {"", "arg-bucket"}

\* a minute count whose nanoseconds exceed 2^63 - 1:
\* 153722868 * 60,000,000,000 > 9,223,372,036,854,775,807
HugeMinutesText == <<"1", "5", "3", "7", "2", "2", "8", "6", "8">>

HugeMinutes == ParseInt(HugeMinutesText).val

ServiceAccountJSONs ==
    {"", "{client_email:env@sa,private_key:KEY-ENV}", "{client_email:"}

CredentialPaths == {"", "/keys/sa.json", "/keys/missing.json", "/keys/broken.json"}

ExpiryTexts ==
    { <<>>, <<"3", "0">>, <<"-", "5">>, <<"0">>, <<"a", "b", "c">>, HugeMinutesText }

AllowMultipleTexts == { <<>>, <<"t", "r", "u", "e">>, <<"F", "a", "l", "s", "e">> }

ExtensionTexts ==
    { <<>>, <<".", "p", "d", "f">>,
      <<"P", "D", "F", ",", " ", ".", "J", "p", "g">>,           \* "PDF, .Jpg"
      <<"p", "d", "f", ",">>,                                     \* "pdf,"
      <<" ", "A", " ", ",", ".", "p", "d", "f">> }                \* " A ,.pdf"

\* a megabyte count whose bytes exceed 2^63 - 1: 8796093022208 = 2^43
HugeSizeText == <<"8", "7", "9", "6", "0", "9", "3", "0", "2", "2", "2", "0", "8">>

SizeTexts == { <<>>, <<"1", "0">>, <<"a", "b", "c">>, <<"0">>, HugeSizeText }

EnvOf(bucket, json, cred, expiry, multiple, extensions, size) ==
    [GCS_BUCKET_NAME |-> bucket,
     GCP_PROJECT_ID |-> "env-project",
     GCS_SERVICE_ACCOUNT_JSON |-> json,
     GOOGLE_APPLICATION_CREDENTIALS |-> cred,
     GCS_DEFAULT_EXPIRY_MINUTES |-> expiry,
     GCS_ALLOW_MULTIPLE_UPLOADS |-> multiple,
     GCS_ALLOWED_FILE_EXTENSIONS |-> extensions,
     GCS_MAX_FILE_SIZE_MB |-> size]

\* the environments a constructor may run in
Environments ==
    { EnvOf(b, j, c, e, <<>>, x, <<>>) :
        b \in {"", "env-bucket"}, j \in ServiceAccountJSONs, c \in CredentialPaths,
        e \in ExpiryTexts, x \in {<<>>, <<".", "p", "d", "f">>} }

FewEnvironments ==
    { EnvOf("env-bucket", j, "", <<>>, <<>>, <<>>, <<>>) :
        j \in {"", "{client_email:env@sa,private_key:KEY-ENV}"} }

\* the environments NewUploadRestrictionsFromEnv may run in
RestrictionEnvironments ==
    { EnvOf("env-bucket", "", "", <<>>, m, x, s) :
        m \in AllowMultipleTexts, x \in ExtensionTexts, s \in SizeTexts }

Configs ==
    { [ProjectID |-> "cfg-project", BucketName |-> b, ServiceAccountKeyPath |-> k,
       DefaultExpiryMinutes |-> m, UploadRestrictions |-> r] :
        b \in BucketArguments, k \in {"", "/keys/sa.json", "/keys/missing.json"},
        m \in {Zero64, SInt(-5), I64(45), HugeMinutes},
        r \in FewRestrictionPointers }

FewConfigs ==
    { [ZeroConfig EXCEPT !.BucketName = "arg-bucket", !.UploadRestrictions = r] :
        r \in RestrictionPointers }

(***************************************************************************)
(* State and actions                                                       *)
(*                                                                         *)
(* gen   the generator the caller holds: <<>> before any construction and  *)
(*       after a failed one, else <<u>>.  No method writes a field of u;   *)
(*       a caller's store into the extension slice it shares with u does.  *)
(* last  the most recent operation: its name, its inputs (arguments, the   *)
(*       environment it read, what the entropy source and the signing      *)
(*       provider answered) and its results.                               *)
(* calls the calls goroutines have in flight on the generator: for each    *)
(*       goroutine the method it is in, its position in the method's body, *)
(*       its arguments and locals, and its result once it has returned.    *)
(***************************************************************************)

CtorInputs(bucketName, restrictions, config, env) ==
    [bucketName |-> bucketName, restrictions |-> restrictions, config |-> config, env |-> env]

Constructed(op, in, out) ==
    /\ gen' = out.u
    /\ UNCHANGED calls
    /\ last' = [op |-> op, in |-> in, out |-> out]

CallNewURLGenerator(E) ==
    /\ last.op = "none"
    /\ \E env \in E :
            Constructed("NewURLGenerator", CtorInputs("", <<>>, ZeroConfig, env),
                        NewURLGenerator(env))

CallNewURLGeneratorWithBucket(E) ==
    /\ last.op = "none"
    /\ \E env \in E, b \in BucketArguments :
            Constructed("NewURLGeneratorWithBucket", CtorInputs(b, <<>>, ZeroConfig, env),
                        NewURLGeneratorWithBucket(b, env))

CallNewURLGeneratorWithBucketAndRestrictions(E, R) ==
    /\ last.op = "none"
    /\ \E env \in E, b \in BucketArguments, r \in R :
            Constructed("NewURLGeneratorWithBucketAndRestrictions",
                        CtorInputs(b, r, ZeroConfig, env),
                        NewURLGeneratorWithBucketAndRestrictions(b, r, env))

CallNewURLGeneratorWithRestrictions(E, R) ==
    /\ last.op = "none"
    /\ \E env \in E, r \in R :
            Constructed("NewURLGeneratorWithRestrictions", CtorInputs("", r, ZeroConfig, env),
                        NewURLGeneratorWithRestrictions(r, env))

CallNewURLGeneratorWithConfig(E, C) ==
    /\ last.op = "none"
    /\ \E env \in E, config \in C :
            Constructed("NewURLGeneratorWithConfig", CtorInputs("", <<>>, config, env),
                        NewURLGeneratorWithConfig(config, env))

CallNewUploadRestrictionsFromEnv ==
    /\ last.op = "none"
    /\ \E env \in RestrictionEnvironments :
          /\ last' = [op |-> "NewUploadRestrictionsFromEnv", in |-> [env |-> env],
                      out |-> NewUploadRestrictionsFromEnv(env)]
          /\ UNCHANGED <<gen, calls>>

ConstructorNames ==
    {"NewURLGenerator", "NewURLGeneratorWithBucket", "NewURLGeneratorWithBucketAndRestrictions",
     "NewURLGeneratorWithRestrictions", "NewURLGeneratorWithConfig"}

\* A behaviour is the caller's script of examples/main.go: construct one
\* generator, check the error and read the bucket name back, then call the
\* generator.  No call writes the generator and a call's result depends on
\* the generator and the call's inputs alone, so the states calls reach are
\* the states reached by one call; a call may also follow a call that
\* addressed the same object name when the specification chains calls.
ChainCalls == FALSE

CallGetBucketName ==
    /\ last.op \in ConstructorNames
    /\ gen # <<>>
    /\ last' = [op |-> "GetBucketName", out |-> GetBucketName(gen[1])]
    /\ UNCHANGED <<gen, calls>>

\* the object names the next call may address
Callable(P) ==
    IF gen = <<>> THEN {}
    ELSE IF last.op = "GetBucketName" THEN P
    ELSE IF ChainCalls /\ last.op \notin ConstructorNames
    THEN {p \in P : p = last.in.objectName}
    ELSE {}

\* A call on the generator: the provider's answer is recorded as TRUE when
\* the call never asked it.
Called(op, in, out, signOK) ==
    /\ (out.signed = <<>> => signOK)
    /\ last' = [op |-> op, in |-> in, out |-> out]
    /\ UNCHANGED <<gen, calls>>

CallInputs(bucketName, objectName, expiry, rnd, signOK) ==
    [bucketName |-> bucketName, objectName |-> objectName, expiry |-> expiry,
     rnd |-> rnd, signOK |-> signOK]

\* the entropy source as recorded for a call that never reads it
NoEntropy == [err |-> TRUE, bytes |-> <<>>]

CallGenerateSignedUploadURL(P) ==
    /\ \E objectName \in Callable(P), rnd \in Entropy, signOK \in BOOLEAN :
          Called("GenerateSignedUploadURL",
                 CallInputs(gen[1].bucketName, objectName, gen[1].defaultExpiry, rnd, signOK),
                 GenerateSignedUploadURL(gen[1], objectName, rnd, signOK), signOK)

\* the number of times the loop of examples/unique-names.go calls
\* GenerateSignedUploadURL for one filename
MaxAttempts == 3

\* which attempt for its filename the call recorded in l was
Attempt(l) == IF "attempt" \in DOMAIN l THEN l.attempt ELSE 1

\* The loop of examples/unique-names.go: after GenerateSignedUploadURL has
\* returned, with or without an error, the caller calls it again with the
\* same filename; the result of the attempt before is remembered.
CallGenerateSignedUploadURLAgain ==
    /\ last.op = "GenerateSignedUploadURL"
    /\ Attempt(last) < MaxAttempts
    /\ \E rnd \in Entropy, signOK \in BOOLEAN :
          LET out == GenerateSignedUploadURL(gen[1], last.in.objectName, rnd, signOK)
          IN  /\ (out.signed = <<>> => signOK)
              /\ last' = [op |-> "GenerateSignedUploadURL",
                          in |-> CallInputs(gen[1].bucketName, last.in.objectName,
                                            gen[1].defaultExpiry, rnd, signOK),
                          out |-> out,
                          attempt |-> Attempt(last) + 1,
                          previous |-> last.out.upload]
              /\ UNCHANGED <<gen, calls>>

CallGenerateSignedUploadURLWithBucket(P) ==
    /\ \E b \in OtherBuckets, objectName \in Callable(P), rnd \in Entropy, signOK \in BOOLEAN :
          Called("GenerateSignedUploadURLWithBucket",
                 CallInputs(b, objectName, gen[1].defaultExpiry, rnd, signOK),
                 GenerateSignedUploadURLWithBucket(gen[1], b, objectName, rnd, signOK), signOK)

CallGenerateSignedUploadURLWithExpiry(P) ==
    /\ \E b \in OtherBuckets, objectName \in Callable(P), expiry \in Expiries, signOK \in BOOLEAN :
          Called("GenerateSignedUploadURLWithExpiry",
                 CallInputs(b, objectName, expiry, NoEntropy, signOK),
                 GenerateSignedUploadURLWithExpiry(gen[1], b, objectName, expiry, signOK),
                 signOK)

CallGenerateSignedUploadURLWithOriginalName(P) ==
    /\ \E objectName \in Callable(P), signOK \in BOOLEAN :
          Called("GenerateSignedUploadURLWithOriginalName",
                 CallInputs(gen[1].bucketName, objectName, gen[1].defaultExpiry,
                            NoEntropy, signOK),
                 GenerateSignedUploadURLWithOriginalName(gen[1], objectName, signOK), signOK)

CallGenerateSignedDownloadURL(P) ==
    /\ \E objectName \in Callable(P), signOK \in BOOLEAN :
          Called("GenerateSignedDownloadURL",
                 CallInputs(gen[1].bucketName, objectName, gen[1].defaultExpiry,
                            NoEntropy, signOK),
                 GenerateSignedDownloadURL(gen[1], objectName, signOK), signOK)

CallGenerateSignedDownloadURLWithBucket(P) ==
    /\ \E b \in OtherBuckets, objectName \in Callable(P), signOK \in BOOLEAN :
          Called("GenerateSignedDownloadURLWithBucket",
                 CallInputs(b, objectName, gen[1].defaultExpiry, NoEntropy, signOK),
                 GenerateSignedDownloadURLWithBucket(gen[1], b, objectName, signOK), signOK)

CallGenerateSignedDownloadURLWithExpiry(P) ==
    /\ \E b \in OtherBuckets, objectName \in Callable(P), expiry \in Expiries, signOK \in BOOLEAN :
          Called("GenerateSignedDownloadURLWithExpiry",
                 CallInputs(b, objectName, expiry, NoEntropy, signOK),
                 GenerateSignedDownloadURLWithExpiry(gen[1], b, objectName, expiry, signOK),
                 signOK)

CallValidateUpload(P) ==
    /\ \E filename \in Callable(P) :
          /\ last' = [op |-> "ValidateUpload", in |-> [objectName |-> filename],
                      out |-> [err |-> ValidateUpload(gen[1], filename)]]
          /\ UNCHANGED <<gen, calls>>

\* extensions getContentTypeFromExtension is applied to: the table's own, the
\* empty one, and some the table does not hold
ExtensionArguments ==
    DOMAIN ContentTypes \cup
    { <<>>, <<".">>, <<".", "P", "D", "F">>, <<"p", "d", "f">>, <<".", "e", "x", "e">>,
      <<".", "a">>, <<".", "p", "d", "f", "x">> }

CallgetContentTypeFromExtension ==
    /\ last.op = "none"
    /\ \E ext \in ExtensionArguments :
          /\ last' = [op |-> "getContentTypeFromExtension", in |-> [ext |-> ext],
                      out |-> getContentTypeFromExtension(ext)]
          /\ UNCHANGED <<gen, calls>>

\* what a caller stores into an element of an extension slice
WrittenExtensions == {<<".", "e", "x", "e">>}

\* A slice shares its backing array with every copy of its header.  The
\* generator's uploadRestrictions is a copy of the caller's struct
\* (uploadRestrictions = *restrictions) and GetUploadRestrictions returns a
\* copy of the generator's struct, so the AllowedExtensions of all three are
\* one array: storing into element i of one stores into element i of all.
StoreExtension(u, i, ext) ==
    [u EXCEPT !.uploadRestrictions.AllowedExtensions[i] = ext]

\* the caller's store of ext into element i, recorded as op together with
\* the ValidateUpload result the caller had before
Stored(op, i, ext) ==
    /\ gen' = <<StoreExtension(gen[1], i, ext)>>
    /\ UNCHANGED calls
    /\ last' = [op |-> op,
                in |-> [objectName |-> last.in.objectName, index |-> i, ext |-> ext],
                previous |-> last.out]

\* restrictions.AllowedExtensions[i] = ext on the UploadRestrictions value the
\* generator was constructed with, after a ValidateUpload
StoreIntoCallerRestrictions ==
    /\ last.op = "ValidateUpload"
    /\ "previous" \notin DOMAIN last
    /\ \E i \in 1..Len(gen[1].uploadRestrictions.AllowedExtensions),
          ext \in WrittenExtensions :
            Stored("restrictions.AllowedExtensions[i] = ext", i, ext)

\* u.GetUploadRestrictions().AllowedExtensions[i] = ext, after a ValidateUpload
StoreIntoGetUploadRestrictions ==
    /\ last.op = "ValidateUpload"
    /\ "previous" \notin DOMAIN last
    /\ \E i \in 1..Len(GetUploadRestrictions(gen[1]).AllowedExtensions),
          ext \in WrittenExtensions :
            Stored("GetUploadRestrictions().AllowedExtensions[i] = ext", i, ext)

StoreNames ==
    {"restrictions.AllowedExtensions[i] = ext",
     "GetUploadRestrictions().AllowedExtensions[i] = ext"}

\* ValidateUpload of the same filename after the caller's store
CallValidateUploadAfterStore ==
    /\ last.op \in StoreNames
    /\ last' = [op |-> "ValidateUpload", in |-> [objectName |-> last.in.objectName],
                out |-> [err |-> ValidateUpload(gen[1], last.in.objectName)],
                previous |-> last.previous]
    /\ UNCHANGED <<gen, calls>>

\* the goroutines that call the generator concurrently
Goroutines == {"A", "B"}

\* a goroutine that is in no call
Idle == [pc |-> "idle"]

Init ==
    /\ gen = <<>>
    /\ last = [op |-> "none"]
    /\ calls = [t \in Goroutines |-> Idle]

\* every operation, with constructor inputs from E, R, C and object names from P
NextOver(E, R, C, P) ==
    \/ CallNewURLGenerator(E)
    \/ CallNewURLGeneratorWithBucket(E)
    \/ CallNewURLGeneratorWithBucketAndRestrictions(E, R)
    \/ CallNewURLGeneratorWithRestrictions(E, R)
    \/ CallNewURLGeneratorWithConfig(E, C)
    \/ CallNewUploadRestrictionsFromEnv
    \/ CallGetBucketName
    \/ CallGenerateSignedUploadURL(P)
    \/ CallGenerateSignedUploadURLAgain
    \/ CallGenerateSignedUploadURLWithBucket(P)
    \/ CallGenerateSignedUploadURLWithExpiry(P)
    \/ CallGenerateSignedUploadURLWithOriginalName(P)
    \/ CallGenerateSignedDownloadURL(P)
    \/ CallGenerateSignedDownloadURLWithBucket(P)
    \/ CallGenerateSignedDownloadURLWithExpiry(P)
    \/ CallValidateUpload(P)
    \/ CallgetContentTypeFromExtension
    \/ StoreIntoCallerRestrictions
    \/ StoreIntoGetUploadRestrictions
    \/ CallValidateUploadAfterStore

\* many configurations and environments, the named object names
Next == NextOver(Environments, RestrictionPointers, Configs, NamedPaths)

Spec == Init /\ [][Next]_vars

\* few configurations, every enumerated object name
NextPaths == NextOver(FewEnvironments, RestrictionPointers, FewConfigs, AllPaths)

SpecPaths == Init /\ [][NextPaths]_vars

(***************************************************************************)
(* Concurrent calls                                                        *)
(*                                                                         *)
(* Goroutines share the generator the caller constructed and call its      *)
(* methods with no lock.  A method body is a sequence of steps, one per    *)
(* function it calls; every step reads the generator as it is when the     *)
(* step runs, and steps of different goroutines interleave freely.  Each   *)
(* call remembers the generator it was started on (u0).                    *)
(***************************************************************************)

ConcurrentPaths == {<<"a", ".", "p", "d", "f">>, <<"a", ".", "j", "p", "g">>}

\* the methods goroutines call and the position each starts at
FirstStep ==
    [GenerateSignedUploadURL |-> "derive",
     GenerateSignedDownloadURLWithBucket |-> "enter",
     ValidateUpload |-> "check",
     GetUploadRestrictions |-> "read"]

\* what the accessors return
Accessors(u) ==
    [BucketName |-> GetBucketName(u), ProjectID |-> GetProjectID(u),
     DefaultExpiry |-> GetDefaultExpiry(u), UploadRestrictions |-> GetUploadRestrictions(u),
     HasUploadRestrictions |-> HasUploadRestrictions(u)]

\* goroutine t has a generator to call and is at position pc of method op
At(t, op, pc) ==
    /\ gen # <<>>
    /\ last.op = "GetBucketName"
    /\ calls[t].pc = pc
    /\ (pc # "idle" => calls[t].op = op)

\* goroutine t moves on: its record becomes c, nothing else changes
Goes(t, c) ==
    /\ calls' = [calls EXCEPT ![t] = c]
    /\ UNCHANGED <<gen, last>>

\* goroutine t returns out from its call
Returns(t, out) == Goes(t, [calls[t] EXCEPT !.pc = "done", !.out = out])

\* goroutine t enters a method
BeginCall(t) ==
    /\ At(t, "", "idle")
    /\ \E op \in DOMAIN FirstStep, objectName \in ConcurrentPaths, b \in OtherBuckets :
          Goes(t, [pc |-> FirstStep[op], op |-> op, u0 |-> gen[1],
                   objectName |-> objectName, bucketName |-> b,
                   rnd |-> NoEntropy, signOK |-> TRUE,
                   uniqueObjectName |-> <<>>, expiry |-> Zero64, out |-> <<>>])

\* GenerateSignedUploadURL: u.generateUniqueObjectName(objectName)
DeriveStep(t) ==
    /\ At(t, "GenerateSignedUploadURL", "derive")
    /\ \E rnd \in Entropy :
          LET unique == generateUniqueObjectName(calls[t].objectName, rnd)
          IN  IF unique.err
              THEN Goes(t, [calls[t] EXCEPT !.pc = "done", !.rnd = rnd,
                        !.out = CallResult(EmptyUpload, "failed to generate unique object name", <<>>)])
              ELSE Goes(t, [calls[t] EXCEPT !.pc = "validate", !.rnd = rnd,
                                            !.uniqueObjectName = unique.name])

\* GenerateSignedUploadURL: if u.hasRestrictions() { u.ValidateUpload(objectName)
ValidateStep(t) ==
    /\ At(t, "GenerateSignedUploadURL", "validate")
    /\ LET invalid == ValidateUpload(gen[1], calls[t].objectName)
       IN  IF ~hasRestrictions(gen[1])
           THEN Goes(t, [calls[t] EXCEPT !.pc = "sign plain"])
           ELSE IF invalid # "nil"
           THEN Returns(t, CallResult(EmptyUpload, invalid, <<>>))
           ELSE Goes(t, [calls[t] EXCEPT !.pc = "sign restricted"])

\* what GenerateSignedUploadURL returns from the result r of its signing call
UploadReturn(c, r) ==
    IF r.err # "nil" THEN CallResult(EmptyUpload, r.err, r.signed)
    ELSE [r EXCEPT !.upload.GeneratedKey = c.uniqueObjectName,
                   !.upload.OriginalName = c.objectName]

\* GenerateSignedUploadURL: u.generateUploadURLWithRestrictions(ctx,
\* u.bucketName, uniqueObjectName, u.defaultExpiry) and the return
SignRestrictedStep(t) ==
    /\ At(t, "GenerateSignedUploadURL", "sign restricted")
    /\ \E signOK \in BOOLEAN :
          LET r == generateUploadURLWithRestrictions(
                       gen[1], gen[1].bucketName, calls[t].uniqueObjectName,
                       gen[1].defaultExpiry, signOK)
          IN  /\ (r.signed = <<>> => signOK)
              /\ Goes(t, [calls[t] EXCEPT !.pc = "done", !.signOK = signOK,
                                          !.out = UploadReturn(calls[t], r)])

\* GenerateSignedUploadURL: u.GenerateSignedUploadURLWithExpiry(ctx,
\* u.bucketName, uniqueObjectName, u.defaultExpiry) and the return
SignPlainStep(t) ==
    /\ At(t, "GenerateSignedUploadURL", "sign plain")
    /\ \E signOK \in BOOLEAN :
          LET r == GenerateSignedUploadURLWithExpiry(
                       gen[1], gen[1].bucketName, calls[t].uniqueObjectName,
                       gen[1].defaultExpiry, signOK)
          IN  /\ (r.signed = <<>> => signOK)
              /\ Goes(t, [calls[t] EXCEPT !.pc = "done", !.signOK = signOK,
                                          !.out = UploadReturn(calls[t], r)])

\* GenerateSignedDownloadURLWithBucket keeping its bucket argument in the
\* generator for the signing call to read
EnterDownloadStepStoringBucket(t) ==
    /\ At(t, "GenerateSignedDownloadURLWithBucket", "enter")
    /\ calls' = [calls EXCEPT ![t] = [calls[t] EXCEPT !.pc = "sign",
                                                      !.expiry = gen[1].defaultExpiry]]
    /\ gen' = <<[gen[1] EXCEPT !.bucketName = calls[t].bucketName]>>
    /\ UNCHANGED last

\* GenerateSignedDownloadURLWithBucket: the arguments of its call of
\* GenerateSignedDownloadURLWithExpiry are evaluated (bucketName, objectName,
\* u.defaultExpiry)
EnterDownloadStep(t) ==
    /\ At(t, "GenerateSignedDownloadURLWithBucket", "enter")
    /\ Goes(t, [calls[t] EXCEPT !.pc = "sign", !.expiry = gen[1].defaultExpiry])

\* GenerateSignedDownloadURLWithBucket: the body of
\* GenerateSignedDownloadURLWithExpiry(ctx, bucketName, objectName, expiry)
SignDownloadStep(t) ==
    /\ At(t, "GenerateSignedDownloadURLWithBucket", "sign")
    /\ \E signOK \in BOOLEAN :
          LET r == GenerateSignedDownloadURLWithExpiry(
                       gen[1], calls[t].bucketName, calls[t].objectName,
                       calls[t].expiry, signOK)
          IN  /\ (r.signed = <<>> => signOK)
              /\ Goes(t, [calls[t] EXCEPT !.pc = "done", !.signOK = signOK, !.out = r])

\* ValidateUpload called directly
CheckStep(t) ==
    /\ At(t, "ValidateUpload", "check")
    /\ Returns(t, [err |-> ValidateUpload(gen[1], calls[t].objectName)])

\* the accessors
ReadStep(t) ==
    /\ At(t, "GetUploadRestrictions", "read")
    /\ Returns(t, Accessors(gen[1]))

\* the caller takes the result; the goroutine is free for its next call
TakeResult(t) ==
    /\ At(t, calls[t].op, "done")
    /\ Goes(t, Idle)

\* one generator, constructed from a configuration, then called by the
\* goroutines
NextConcurrent ==
    \/ CallNewURLGeneratorWithConfig(FewEnvironments, FewConfigs)
    \/ CallGetBucketName
    \/ \E t \in Goroutines : BeginCall(t)
    \/ \E t \in Goroutines : DeriveStep(t)
    \/ \E t \in Goroutines : ValidateStep(t)
    \/ \E t \in Goroutines : SignRestrictedStep(t)
    \/ \E t \in Goroutines : SignPlainStep(t)
    \/ \E t \in Goroutines : EnterDownloadStep(t)
    \/ \E t \in Goroutines : SignDownloadStep(t)
    \/ \E t \in Goroutines : CheckStep(t)
    \/ \E t \in Goroutines : ReadStep(t)
    \/ \E t \in Goroutines : TakeResult(t)

SpecConcurrent == Init /\ [][NextConcurrent]_vars

(***************************************************************************)
(* Properties                                                              *)
(***************************************************************************)

DerivingUploads == {"GenerateSignedUploadURL", "GenerateSignedUploadURLWithBucket"}

\* the last operation was a key-deriving upload call that succeeded
DerivedUpload == last.op \in DerivingUploads /\ last.out.err = "nil"

\* getDirectory of examples/unique-names.go: everything before the final
\* separator, "." when there is none
getDirectory(path) ==
    IF LastSep(path) # 0 THEN SubSeq(path, 1, LastSep(path) - 1) ELSE <<".">>

HasSeparator(path) == \E i \in 1..Len(path) : path[i] = "/"

HexCharacters == {HexDigits[i] : i \in 1..16}

\* C1: directory preservation.  For every input path that contains a
\* separator, the key a successful GenerateSignedUploadURL or
\* GenerateSignedUploadURLWithBucket returns contains a separator and
\* everything before its final separator equals everything before the final
\* separator of the input: GeneratedKey and OriginalName share the directory.
C1_DirectoryPreserved ==
    (DerivedUpload /\ HasSeparator(last.in.objectName)) =>
        /\ last.out.upload.OriginalName = last.in.objectName
        /\ HasSeparator(last.out.upload.GeneratedKey)
        /\ getDirectory(last.out.upload.GeneratedKey) = getDirectory(last.in.objectName)

\* C2: leaf-only inputs.  For every input path without a separator (the
\* empty name, "." and ".." included) the derived key is 8 hexadecimal
\* characters, then "_", then the input unchanged, and holds no separator.
C2_LeafOnly ==
    (DerivedUpload /\ ~HasSeparator(last.in.objectName)) =>
        LET key == last.out.upload.GeneratedKey
            p == last.in.objectName
        IN  /\ Len(key) = 9 + Len(p)
            /\ \A i \in 1..8 : key[i] \in HexCharacters
            /\ key[9] = "_"
            /\ SubSeq(key, 10, Len(key)) = p
            /\ ~HasSeparator(key)

ExtensionError == "file extension not allowed"

\* the upload calls documented to validate the filename
ValidatingUploads == DerivingUploads \cup {"GenerateSignedUploadURLWithOriginalName"}

\* the last path segment: what follows the final separator
LastSegment(path) ==
    LET seps == {i \in 1..Len(path) : path[i] = "/"}
        from == IF seps = {} THEN 1 ELSE 1 + CHOOSE i \in seps : \A j \in seps : j <= i
    IN  SubSeq(path, from, Len(path))

\* the extension in the specification's words: the substring of the last
\* path segment from its final "." on, empty when it has none
ExtensionOf(path) ==
    LET seg == LastSegment(path)
        dots == {i \in 1..Len(seg) : seg[i] = "."}
    IN  IF dots = {} THEN <<>>
        ELSE SubSeq(seg, CHOOSE i \in dots : \A j \in dots : j <= i, Len(seg))

\* the lowercased extension of path is an element of the policy's allow-list
InAllowList(policy, path) ==
    \E i \in 1..Len(policy.AllowedExtensions) :
        policy.AllowedExtensions[i] = ToLower(ExtensionOf(path))

\* the policy has an allow-list and the extension of path is not in it
Disallowed(policy, path) ==
    Len(policy.AllowedExtensions) > 0 /\ ~InAllowList(policy, path)

\* the last operation was a validating upload call on a disallowed filename
DisallowedUpload ==
    /\ last.op \in ValidatingUploads
    /\ Disallowed(gen[1].uploadRestrictions, last.in.objectName)

\* C3 as stated: validation precedes signing.  In GenerateSignedUploadURL,
\* GenerateSignedUploadURLWithBucket and GenerateSignedUploadURLWithOriginalName
\* a filename whose extension is not in the allow-list makes the call return
\* the validation error with an empty DocumentUpload, and the call sends no
\* request to the signing provider.
C3_ValidationErrorReturned ==
    DisallowedUpload =>
        /\ last.out.err = ExtensionError
        /\ last.out.upload = EmptyUpload
        /\ last.out.signed = <<>>

\* C3 amended: a disallowed filename makes the three calls return an error
\* with an empty DocumentUpload and send no request to the signing provider;
\* the error is the validation error, except that the two key-deriving calls
\* derive the key first and return the derivation error when the entropy
\* source fails.
C3_RejectedBeforeSigning ==
    DisallowedUpload =>
        /\ last.out.signed = <<>>
        /\ last.out.upload = EmptyUpload
        /\ last.out.err = IF last.op \in DerivingUploads /\ last.in.rnd.err
                          THEN "failed to generate unique object name"
                          ELSE ExtensionError

\* a key-deriving call with working entropy and a loaded signing identity
\* rejected a disallowed filename
C3_Witness ==
    /\ DisallowedUpload
    /\ last.op = "GenerateSignedUploadURL"
    /\ ~last.in.rnd.err
    /\ gen[1].svcAccount # <<>>
    /\ last.out.err = ExtensionError

\* the entropy source answering four zero bytes
GoodEntropy == [err |-> FALSE, bytes |-> <<0, 0, 0, 0>>]

UploadVariants ==
    {"GenerateSignedUploadURLWithBucket", "GenerateSignedUploadURLWithExpiry",
     "GenerateSignedUploadURLWithOriginalName"}

\* what GenerateSignedUploadURL answers on the generator and the filename of
\* the last call, the entropy source and the provider answering the same
Reference ==
    GenerateSignedUploadURL(gen[1], last.in.objectName,
                            IF last.op \in DerivingUploads THEN last.in.rnd ELSE GoodEntropy,
                            last.in.signOK)

\* C4 as stated: the upload variants differ only in the overridden value.
\* For the same generator and filename each variant rejects on the extension
\* check exactly when GenerateSignedUploadURL does, and when both build a
\* signing request the two carry the same content-type and headers.
C4_VariantsIdentical ==
    last.op \in UploadVariants =>
        /\ (last.out.err = ExtensionError) <=> (Reference.err = ExtensionError)
        /\ (last.out.signed # <<>> /\ Reference.signed # <<>>) =>
              /\ last.out.signed[1].ContentType = Reference.signed[1].ContentType
              /\ last.out.signed[1].Headers = Reference.signed[1].Headers

Rebucket(requests, b) == [i \in 1..Len(requests) |-> [requests[i] EXCEPT !.bucket = b]]

\* a call result with every request it holds addressed to bucket b
OverBucket(r, b) ==
    [r EXCEPT !.signed = Rebucket(@, b), !.upload.UploadURL = Rebucket(@, b)]

EndsInSeparator(path) == Len(path) > 0 /\ path[Len(path)] = "/"

\* C4 amended.  GenerateSignedUploadURLWithBucket answers what
\* GenerateSignedUploadURL answers, with the given bucket in place of the
\* default one.  GenerateSignedUploadURLWithOriginalName returns the same
\* error, signs the filename itself with the same headers, and with the same
\* content-type unless the filename ends in a separator (the content-type is
\* looked up from the name that is signed).  GenerateSignedUploadURLWithExpiry
\* never validates: it never returns the validation error and every request
\* it builds is for the given bucket, name and expiry with content-type
\* application/octet-stream and no headers.
C4_VariantsOverride ==
    /\ last.op = "GenerateSignedUploadURLWithBucket" =>
          last.out = OverBucket(Reference, last.in.bucketName)
    /\ last.op = "GenerateSignedUploadURLWithOriginalName" =>
          /\ last.out.err = Reference.err
          /\ last.out.signed # <<>> =>
                /\ Reference.signed # <<>>
                /\ last.out.signed[1].object = last.in.objectName
                /\ last.out.signed[1].Headers = Reference.signed[1].Headers
                /\ \/ last.out.signed[1].ContentType = Reference.signed[1].ContentType
                   \/ EndsInSeparator(last.in.objectName)
    /\ last.op = "GenerateSignedUploadURLWithExpiry" =>
          /\ last.out.err # ExtensionError
          /\ last.out.signed # <<>> =>
                /\ last.out.signed[1].bucket = last.in.bucketName
                /\ last.out.signed[1].object = last.in.objectName
                /\ last.out.signed[1].Expires = <<last.in.expiry>>
                /\ last.out.signed[1].ContentType = "application/octet-stream"
                /\ last.out.signed[1].Headers = <<>>

\* the explicit-expiry variant signed a filename the allow-list excludes
C4_Witness ==
    /\ last.op = "GenerateSignedUploadURLWithExpiry"
    /\ Disallowed(gen[1].uploadRestrictions, last.in.objectName)
    /\ last.out.err = "nil"
    /\ last.out.signed # <<>>

\* MaxFileSizeMB x 1,048,576 in decimal
CapBytesText(policy) == SprintfDec(Mul64(policy.MaxFileSizeMB, Mul64(I64(1024), I64(1024))))

\* C5: the size cap becomes a Content-Length constraint.  Every signing
\* request GenerateSignedUploadURL builds carries the single header
\* "Content-Length:<MaxFileSizeMB x 1,048,576>" when the policy's
\* MaxFileSizeMB is positive, and no header when it is not.
C5_SizeCapHeader ==
    (last.op = "GenerateSignedUploadURL" /\ last.out.signed # <<>>) =>
        last.out.signed[1].Headers =
            IF IsPos64(gen[1].uploadRestrictions.MaxFileSizeMB)
            THEN <<ContentLengthPrefix \o CapBytesText(gen[1].uploadRestrictions)>>
            ELSE <<>>

\* C6: the extension gate.  ValidateUpload(filename) succeeds if and only if
\* the allow-list is empty or the lowercased extension of filename is an
\* element of it, whatever AllowMultiple and the size cap are.
C6_ExtensionGate ==
    last.op = "ValidateUpload" =>
        ((last.out.err = "nil") <=>
            \/ Len(gen[1].uploadRestrictions.AllowedExtensions) = 0
            \/ InAllowList(gen[1].uploadRestrictions, last.in.objectName))

\* ValidateUpload accepted "A.PDF" against the allow-list [".pdf", ".a"]
C6_Witness ==
    /\ last.op = "ValidateUpload"
    /\ last.in.objectName = <<"A", ".", "P", "D", "F">>
    /\ gen[1].uploadRestrictions.AllowedExtensions = ExtPdfA
    /\ last.out.err = "nil"

\* the last operation was a constructor, successful or not
ConstructorReturned == last.op \in ConstructorNames

\* the last operation was a constructor that returned a generator
ConstructorSucceeded == ConstructorReturned /\ last.out.err = "nil"

BucketErrors ==
    {"GCS_BUCKET_NAME environment variable is required", "bucket name is required",
     "bucket name cannot be empty"}

\* the explicit bucket source of the last constructor call
ExplicitBucket ==
    IF last.op = "NewURLGeneratorWithConfig" THEN last.in.config.BucketName
    ELSE last.in.bucketName

\* the first non-empty string of a sequence, "" when there is none
RECURSIVE FirstNonEmpty(_)
FirstNonEmpty(sources) ==
    IF sources = <<>> THEN ""
    ELSE IF Head(sources) # "" THEN Head(sources)
    ELSE FirstNonEmpty(Tail(sources))

\* the constructor answered as a bucket resolution to the string b does: a
\* bucket error exactly when b is empty, a generator on bucket b otherwise
ResolvedTo(b) ==
    /\ (last.out.err \in BucketErrors) <=> (b = "")
    /\ last.out.err = "nil" => gen # <<>> /\ GetBucketName(gen[1]) = b
    /\ last.out.err # "nil" => gen = <<>>

\* C7 as stated: every constructor resolves the bucket as the first non-empty
\* value among its explicit source (Config.BucketName or the bucketName
\* argument) and then GCS_BUCKET_NAME, and fails for want of a bucket if and
\* only if both are empty.
C7_FirstNonEmptyBucket ==
    ConstructorReturned =>
        ResolvedTo(FirstNonEmpty(<<ExplicitBucket, last.in.env.GCS_BUCKET_NAME>>))

\* the bucket sources each constructor reads, in order
BucketSources ==
    CASE last.op \in {"NewURLGenerator", "NewURLGeneratorWithRestrictions"} ->
             <<last.in.env.GCS_BUCKET_NAME>>
      [] last.op \in {"NewURLGeneratorWithBucket", "NewURLGeneratorWithBucketAndRestrictions"} ->
             <<last.in.bucketName>>
      [] last.op = "NewURLGeneratorWithConfig" ->
             <<last.in.config.BucketName, last.in.env.GCS_BUCKET_NAME>>

\* C7 amended: NewURLGeneratorWithConfig resolves the bucket as
\* Config.BucketName if non-empty, else GCS_BUCKET_NAME; NewURLGenerator and
\* NewURLGeneratorWithRestrictions read GCS_BUCKET_NAME alone;
\* NewURLGeneratorWithBucket and NewURLGeneratorWithBucketAndRestrictions use
\* their argument alone and reject an empty one even when GCS_BUCKET_NAME is
\* set.  A constructor fails with a bucket error if and only if every source
\* it reads is empty, and a non-empty explicit value wins over the environment.
C7_BucketResolution ==
    ConstructorReturned => ResolvedTo(FirstNonEmpty(BucketSources))

\* an explicit bucket argument won over a conflicting GCS_BUCKET_NAME
C7_Witness ==
    /\ last.op = "NewURLGeneratorWithBucket"
    /\ last.in.bucketName = "arg-bucket"
    /\ last.in.env.GCS_BUCKET_NAME = "env-bucket"
    /\ last.out.err = "nil"
    /\ GetBucketName(gen[1]) = "arg-bucket"

\* the credential file paths given to the last constructor call
GivenCredentialPaths ==
    {last.in.env.GOOGLE_APPLICATION_CREDENTIALS, last.in.config.ServiceAccountKeyPath}
        \ {""}

\* C8: the file step of the credential chain.  In every constructor, when
\* GCS_SERVICE_ACCOUNT_JSON is unset and a credential file path is given by
\* GOOGLE_APPLICATION_CREDENTIALS or by Config.ServiceAccountKeyPath, a
\* successful construction has read and parsed a given file into the signing
\* identity of the generator.
C8_CredentialFileRead ==
    (ConstructorSucceeded /\ last.in.env.GCS_SERVICE_ACCOUNT_JSON = ""
                          /\ GivenCredentialPaths # {}) =>
        \E path \in GivenCredentialPaths :
            /\ ~ReadFile(path).err
            /\ ~Unmarshal(ReadFile(path).data).err
            /\ gen[1].svcAccount = <<Unmarshal(ReadFile(path).data).sa>>

\* the explicit restrictions pointer of the last constructor call
ExplicitRestrictions ==
    IF last.op = "NewURLGeneratorWithConfig" THEN last.in.config.UploadRestrictions
    ELSE last.in.restrictions

\* C9 as stated: each constructor resolves the policy as the explicit
\* restrictions pointer if given, else the policy derived from the
\* restriction environment variables, else the permissive default.
C9_EnvironmentPolicy ==
    ConstructorSucceeded =>
        GetUploadRestrictions(gen[1]) =
            IF ExplicitRestrictions # <<>> THEN ExplicitRestrictions[1]
            ELSE IF NewUploadRestrictionsFromEnv(last.in.env) # <<>>
            THEN NewUploadRestrictionsFromEnv(last.in.env)[1]
            ELSE DefaultRestrictions

\* C9 amended: each constructor resolves the policy as the explicit
\* restrictions pointer if given, else the permissive default (AllowMultiple
\* true, no extensions, no size cap); no constructor reads the restriction
\* environment variables, so a generator built with no explicit restrictions
\* accepts "a.jpg" whatever GCS_ALLOWED_FILE_EXTENSIONS is.
C9_ExplicitOrDefaultPolicy ==
    ConstructorSucceeded =>
        /\ GetUploadRestrictions(gen[1]) =
              IF ExplicitRestrictions # <<>> THEN ExplicitRestrictions[1]
              ELSE DefaultRestrictions
        /\ ExplicitRestrictions = <<>> =>
              /\ ~HasUploadRestrictions(gen[1])
              /\ ValidateUpload(gen[1], <<"a", ".", "j", "p", "g">>) = "nil"

\* a generator built with no explicit restrictions while
\* GCS_ALLOWED_FILE_EXTENSIONS is ".pdf" has the permissive default policy
C9_Witness ==
    /\ ConstructorSucceeded
    /\ last.op = "NewURLGenerator"
    /\ last.in.env.GCS_ALLOWED_FILE_EXTENSIONS = <<".", "p", "d", "f">>
    /\ GetUploadRestrictions(gen[1]) = DefaultRestrictions

\* the minutes the claimed precedence selects for the last constructor call
ResolvedMinutes ==
    LET parsed == ParseInt(last.in.env.GCS_DEFAULT_EXPIRY_MINUTES)
    IN  IF IsPos64(last.in.config.DefaultExpiryMinutes)
        THEN last.in.config.DefaultExpiryMinutes
        ELSE IF ~parsed.err /\ IsPos64(parsed.val) THEN parsed.val
        ELSE I64(DefaultExpiryMinutes)

\* C10: expiry resolution.  The default expiry is Config.DefaultExpiryMinutes
\* minutes when that field is positive, otherwise the minutes of
\* GCS_DEFAULT_EXPIRY_MINUTES when it parses as a positive integer, otherwise
\* 15 minutes: the duration is exactly that many times 60,000,000,000
\* nanoseconds.  No expiry value makes construction fail.
C10_ExpiryResolution ==
    ConstructorReturned =>
        /\ last.out.err \in {"nil", "failed to parse GCS_SERVICE_ACCOUNT_JSON",
                             "failed to read service account file",
                             "failed to parse service account file"} \cup BucketErrors
        /\ last.out.err = "nil" =>
              /\ ~IsNeg64(GetDefaultExpiry(gen[1]))
              /\ Widen(GetDefaultExpiry(gen[1]), 16) = MulExact(ResolvedMinutes, Minute)

\* C11: the positive expiry invariant.  After every successful construction
\* GetDefaultExpiry() is a strictly positive duration, whatever
\* Config.DefaultExpiryMinutes and GCS_DEFAULT_EXPIRY_MINUTES are, minute
\* counts whose nanoseconds exceed the signed 64-bit range included.
C11_PositiveExpiry ==
    ConstructorSucceeded => IsPos64(GetDefaultExpiry(gen[1]))

\* the last operation was NewUploadRestrictionsFromEnv
PolicyBuilt == last.op = "NewUploadRestrictionsFromEnv"

\* none of the three restriction variables is set
NoRestrictionVariableSet ==
    /\ last.in.env.GCS_ALLOW_MULTIPLE_UPLOADS = <<>>
    /\ last.in.env.GCS_ALLOWED_FILE_EXTENSIONS = <<>>
    /\ last.in.env.GCS_MAX_FILE_SIZE_MB = <<>>

\* C12 as stated: NewUploadRestrictionsFromEnv returns nil exactly when none
\* of GCS_ALLOW_MULTIPLE_UPLOADS, GCS_ALLOWED_FILE_EXTENSIONS and
\* GCS_MAX_FILE_SIZE_MB is set; a variable set to its default value gives a
\* non-nil permissive policy.
C12_NilIffUnset ==
    PolicyBuilt => ((last.out = <<>>) <=> NoRestrictionVariableSet)

\* the three restriction variables restrict nothing: multiplicity is unset or
\* "true" in any case, the extension list is unset, and the size is unset or
\* no positive integer
NothingRestricted ==
    /\ \/ last.in.env.GCS_ALLOW_MULTIPLE_UPLOADS = <<>>
       \/ ToLower(last.in.env.GCS_ALLOW_MULTIPLE_UPLOADS) = <<"t", "r", "u", "e">>
    /\ last.in.env.GCS_ALLOWED_FILE_EXTENSIONS = <<>>
    /\ \/ last.in.env.GCS_MAX_FILE_SIZE_MB = <<>>
       \/ ParseInt(last.in.env.GCS_MAX_FILE_SIZE_MB).err
       \/ ~IsPos64(ParseInt(last.in.env.GCS_MAX_FILE_SIZE_MB).val)

\* C12 amended: NewUploadRestrictionsFromEnv returns nil exactly when the
\* policy it read restricts nothing, that is when GCS_ALLOW_MULTIPLE_UPLOADS
\* is unset or "true", GCS_ALLOWED_FILE_EXTENSIONS is unset and
\* GCS_MAX_FILE_SIZE_MB is unset or no positive integer; variables set to
\* their default values give nil, never a permissive policy.  A non-nil
\* result always restricts something.
C12_NilIffPermissive ==
    PolicyBuilt =>
        /\ (last.out = <<>>) <=> NothingRestricted
        /\ last.out # <<>> =>
              \/ ~last.out[1].AllowMultiple
              \/ Len(last.out[1].AllowedExtensions) > 0
              \/ IsPos64(last.out[1].MaxFileSizeMB)

\* GCS_ALLOW_MULTIPLE_UPLOADS="true" with the other two unset gave nil
C12_Witness ==
    /\ PolicyBuilt
    /\ last.in.env.GCS_ALLOW_MULTIPLE_UPLOADS = <<"t", "r", "u", "e">>
    /\ last.in.env.GCS_ALLOWED_FILE_EXTENSIONS = <<>>
    /\ last.in.env.GCS_MAX_FILE_SIZE_MB = <<>>
    /\ last.out = <<>>

CredentialError == "service account not loaded"

DerivationError == "failed to generate unique object name"

DownloadCalls ==
    {"GenerateSignedDownloadURL", "GenerateSignedDownloadURLWithBucket",
     "GenerateSignedDownloadURLWithExpiry"}

UploadCalls ==
    DerivingUploads \cup {"GenerateSignedUploadURLWithExpiry",
                          "GenerateSignedUploadURLWithOriginalName"}

\* the last constructor call was given no credential source at all
NoCredentialConfigured ==
    /\ last.in.env.GCS_SERVICE_ACCOUNT_JSON = ""
    /\ last.in.env.GOOGLE_APPLICATION_CREDENTIALS = ""
    /\ last.in.config.ServiceAccountKeyPath = ""

\* a constructor given a bucket and no credential source succeeds with an
\* absent signing identity
ConstructsWithoutCredential ==
    (ConstructorReturned /\ NoCredentialConfigured /\ FirstNonEmpty(BucketSources) # "") =>
        /\ last.out.err = "nil"
        /\ gen[1].svcAccount = <<>>

\* the last operation was a download call on a generator without identity
DownloadWithoutCredential == last.op \in DownloadCalls /\ gen[1].svcAccount = <<>>

\* the last operation was an upload call, on a generator without identity,
\* whose filename passes validation
UploadWithoutCredential ==
    /\ last.op \in UploadCalls
    /\ gen[1].svcAccount = <<>>
    /\ ~Disallowed(gen[1].uploadRestrictions, last.in.objectName)

ConstructedWithJSON ==
    /\ ConstructorReturned
    /\ FirstNonEmpty(BucketSources) # ""
    /\ last.in.env.GCS_SERVICE_ACCOUNT_JSON # ""

\* C14: the JSON blob has the highest precedence and no fallthrough.  In
\* every constructor that finds GCS_SERVICE_ACCOUNT_JSON non-empty the
\* outcome is decided by that blob alone: if it parses, construction succeeds
\* with the identity and the JSON of the blob, whatever credential file path
\* is configured and whether or not that file exists or parses; if it does not
\* parse, construction fails with the JSON parse error even when a valid
\* credential file is configured.
C14_JSONBlobFirst ==
    ConstructedWithJSON =>
        IF Unmarshal(last.in.env.GCS_SERVICE_ACCOUNT_JSON).err
        THEN /\ last.out.err = "failed to parse GCS_SERVICE_ACCOUNT_JSON"
             /\ gen = <<>>
        ELSE /\ last.out.err = "nil"
             /\ gen[1].svcAccount = <<Unmarshal(last.in.env.GCS_SERVICE_ACCOUNT_JSON).sa>>
             /\ gen[1].serviceAccountJSON = last.in.env.GCS_SERVICE_ACCOUNT_JSON
             /\ gen[1].serviceAccountKeyPath = last.in.config.ServiceAccountKeyPath

\* a blob that does not parse failed the construction although
\* GOOGLE_APPLICATION_CREDENTIALS names a valid credential file
C14_Witness ==
    /\ ConstructedWithJSON
    /\ last.op = "NewURLGeneratorWithRestrictions"
    /\ Unmarshal(last.in.env.GCS_SERVICE_ACCOUNT_JSON).err
    /\ last.in.env.GOOGLE_APPLICATION_CREDENTIALS = "/keys/sa.json"
    /\ last.out.err = "failed to parse GCS_SERVICE_ACCOUNT_JSON"

\* C15: construction is all-or-nothing.  Every constructor returns either no
\* generator and an error, or a generator and no error, never both and never
\* neither; the caller holds exactly what was returned, and every returned
\* generator has a non-empty GetBucketName().
C15_AllOrNothing ==
    ConstructorReturned =>
        /\ (last.out.u = <<>>) <=> (last.out.err # "nil")
        /\ gen = last.out.u
        /\ last.out.u # <<>> => GetBucketName(last.out.u[1]) # ""

\* a construction that resolved its bucket failed on an unreadable credential
\* file and returned no generator
C15_Witness ==
    /\ ConstructorReturned
    /\ FirstNonEmpty(BucketSources) # ""
    /\ last.out.err = "failed to read service account file"
    /\ last.out.u = <<>>
    /\ gen = <<>>

\* C16: the fields of the upload result.  On success of
\* GenerateSignedUploadURL and GenerateSignedUploadURLWithBucket exactly one
\* request went to the signing provider, GeneratedKey is the object name of
\* that request, which is the key derived from the input path, and
\* OriginalName is the input path unmodified, on the restricted and on the
\* unrestricted signing path alike.
C16_ResultFields ==
    DerivedUpload =>
        /\ Len(last.out.signed) = 1
        /\ last.out.upload.GeneratedKey = last.out.signed[1].object
        /\ last.out.upload.GeneratedKey =
              generateUniqueObjectName(last.in.objectName, last.in.rnd).name
        /\ last.out.upload.OriginalName = last.in.objectName
        /\ last.out.upload.UploadURL = <<last.out.signed[1]>>

\* a successful upload of "u/1/c.pdf" on the restricted signing path
C16_Witness ==
    /\ DerivedUpload
    /\ last.op = "GenerateSignedUploadURLWithBucket"
    /\ HasUploadRestrictions(gen[1])
    /\ last.in.objectName = <<"u", "/", "1", "/", "c", ".", "p", "d", "f">>
    /\ last.out.upload.OriginalName = last.in.objectName
    /\ last.out.upload.GeneratedKey = last.out.signed[1].object

VerbatimUploads ==
    {"GenerateSignedUploadURLWithOriginalName", "GenerateSignedUploadURLWithExpiry"}

\* C17: verbatim-name mode.  GenerateSignedUploadURLWithOriginalName and
\* GenerateSignedUploadURLWithExpiry read no entropy, every request they send
\* to the signing provider is for exactly the object name they were given,
\* and on success GeneratedKey and OriginalName both equal that name, with
\* or without active restrictions.
C17_VerbatimName ==
    last.op \in VerbatimUploads =>
        /\ last.in.rnd = NoEntropy
        /\ \A i \in 1..Len(last.out.signed) :
               last.out.signed[i].object = last.in.objectName
        /\ last.out.err = "nil" =>
              /\ Len(last.out.signed) = 1
              /\ last.out.upload.GeneratedKey = last.in.objectName
              /\ last.out.upload.OriginalName = last.in.objectName

\* GenerateSignedUploadURLWithOriginalName signed "a.pdf" itself under
\* active restrictions
C17_Witness ==
    /\ last.op = "GenerateSignedUploadURLWithOriginalName"
    /\ HasUploadRestrictions(gen[1])
    /\ last.in.objectName = <<"a", ".", "p", "d", "f">>
    /\ last.out.err = "nil"
    /\ last.out.signed[1].object = last.in.objectName
    /\ last.out.upload.GeneratedKey = last.in.objectName

\* the active-restrictions predicate in the specification's words: the
\* extension list is non-empty, or the size cap is set in either unit, or
\* AllowMultiple is false
ActivePolicy(policy) ==
    \/ Len(policy.AllowedExtensions) > 0
    \/ IsPos64(policy.MaxFileSizeMB)
    \/ IsPos64(policy.MaxFileSizeBytes)
    \/ ~policy.AllowMultiple

\* C18: the active-restrictions predicate.  For every generator
\* HasUploadRestrictions() is true if and only if the extension list is
\* non-empty, or MaxFileSizeMB > 0 or MaxFileSizeBytes > 0, or AllowMultiple
\* is false; and the key-deriving uploads take the restricted signing path
\* exactly then: an active policy with MaxFileSizeBytes > 0 puts the
\* Content-Length header on every request, an inactive one puts none.
C18_ActivePredicate ==
    gen # <<>> =>
        /\ HasUploadRestrictions(gen[1]) <=> ActivePolicy(gen[1].uploadRestrictions)
        /\ (last.op \in DerivingUploads /\ last.out.signed # <<>>) =>
              last.out.signed[1].Headers =
                  IF ActivePolicy(gen[1].uploadRestrictions)
                     /\ IsPos64(gen[1].uploadRestrictions.MaxFileSizeBytes)
                  THEN <<ContentLengthPrefix
                           \o SprintfDec(gen[1].uploadRestrictions.MaxFileSizeBytes)>>
                  ELSE <<>>

\* the bucket a download call is to address
DownloadBucket ==
    IF last.op = "GenerateSignedDownloadURL" THEN GetBucketName(gen[1])
    ELSE last.in.bucketName

\* the expiry a download call is to sign with
DownloadExpiry ==
    IF last.op = "GenerateSignedDownloadURLWithExpiry" THEN last.in.expiry
    ELSE GetDefaultExpiry(gen[1])

\* C19: downloads are never restricted.  The three download calls check no
\* extension and derive no key: under every policy and for every object name
\* a generator with a signing identity sends exactly one request, a GET for
\* the given (or the default) bucket and exactly the given object name, with
\* the given (or the default) expiry, no content-type and no headers; the
\* call never returns the validation or the derivation error and reads no
\* entropy.
C19_DownloadsUnrestricted ==
    last.op \in DownloadCalls =>
        /\ last.out.err \notin {ExtensionError, DerivationError}
        /\ last.in.rnd = NoEntropy
        /\ gen[1].svcAccount = <<>> => last.out.signed = <<>>
        /\ gen[1].svcAccount # <<>> =>
              /\ Len(last.out.signed) = 1
              /\ last.out.signed[1].Method = "GET"
              /\ last.out.signed[1].bucket = DownloadBucket
              /\ last.out.signed[1].object = last.in.objectName
              /\ last.out.signed[1].Expires = <<DownloadExpiry>>
              /\ last.out.signed[1].ContentType = ""
              /\ last.out.signed[1].Headers = <<>>
              /\ last.out.err = "nil" => last.out.url = <<last.out.signed[1]>>

\* a download URL for "a.jpg" was signed under the allow-list [".pdf", ".a"]
C19_Witness ==
    /\ last.op = "GenerateSignedDownloadURL"
    /\ gen[1].uploadRestrictions.AllowedExtensions = ExtPdfA
    /\ last.in.objectName = <<"a", ".", "j", "p", "g">>
    /\ last.out.err = "nil"
    /\ last.out.signed[1].object = last.in.objectName

\* the last operation was a successful GenerateSignedUploadURL that followed
\* a successful one for the same filename on the same generator
RepeatedUpload ==
    /\ last.op = "GenerateSignedUploadURL"
    /\ Attempt(last) > 1
    /\ last.previous # EmptyUpload
    /\ last.out.err = "nil"

\* C20: uniqueness under repetition.  Two successful calls of
\* GenerateSignedUploadURL with the identical input path on the same
\* generator return two different GeneratedKey values.
C20_UniqueUnderRepetition ==
    RepeatedUpload =>
        /\ last.previous.OriginalName = last.out.upload.OriginalName
        /\ last.previous.GeneratedKey # last.out.upload.GeneratedKey

\* the last operation was a ValidateUpload that followed a caller's store
\* into the extension slice, itself following a ValidateUpload of the same
\* filename
ValidatedAfterStore ==
    /\ last.op = "ValidateUpload"
    /\ "previous" \in DOMAIN last

\* C21: policy immutability after attachment.  Storing into an element of
\* the AllowedExtensions of the caller's original UploadRestrictions, or of
\* the value GetUploadRestrictions returned, does not change the result of
\* a later ValidateUpload on the generator.
C21_PolicyImmutable ==
    ValidatedAfterStore => last.out = last.previous

\* the outcome the call recorded in c has when it runs alone on the
\* generator it was started on, with the same answers of the entropy source
\* and of the signing provider
Alone(c) ==
    CASE c.op = "GenerateSignedUploadURL" ->
             GenerateSignedUploadURL(c.u0, c.objectName, c.rnd, c.signOK)
      [] c.op = "GenerateSignedDownloadURLWithBucket" ->
             GenerateSignedDownloadURLWithBucket(c.u0, c.bucketName, c.objectName, c.signOK)
      [] c.op = "ValidateUpload" -> [err |-> ValidateUpload(c.u0, c.objectName)]
      [] c.op = "GetUploadRestrictions" -> Accessors(c.u0)

\* C22: call independence.  However the steps of concurrent upload,
\* download, ValidateUpload and accessor calls on one generator interleave,
\* no call changes the generator (the accessors keep returning what they
\* returned when the call started) and every call that has returned has the
\* outcome it has when run alone.
C22_CallsIndependent ==
    \A t \in Goroutines :
        calls[t] # Idle =>
            /\ Accessors(gen[1]) = Accessors(calls[t].u0)
            /\ gen[1] = calls[t].u0
            /\ (calls[t].pc = "done" => calls[t].out = Alone(calls[t]))

\* an upload has returned a signed URL while the other goroutine is between
\* the steps of its own upload, and the generator has an active policy
C22_Witness ==
    /\ calls["A"].pc = "done"
    /\ calls["A"].op = "GenerateSignedUploadURL"
    /\ calls["A"].out.err = "nil"
    /\ calls["B"].pc = "sign restricted"
    /\ calls["A"].objectName # calls["B"].objectName

\* the last operation was an upload or download call
SigningCall == last.op \in UploadCalls \cup DownloadCalls

\* the empty result of the last call: the zero DocumentUpload of an upload,
\* the empty URL of a download
EmptyResult ==
    IF last.op \in DownloadCalls THEN last.out.url = <<>>
    ELSE last.out.upload = EmptyUpload

SigningErrors ==
    {"failed to generate signed upload URL", "failed to generate validated upload URL",
     "failed to generate signed download URL"}

\* C23: no retries, no swallowed failures.  Every upload or download call
\* sends at most one request to the signing provider; when the provider
\* answers that request with an error the call returns a signing error and
\* the empty result, having sent nothing more; every call that returns an
\* error returns the empty result, and a call returns no error only when
\* the provider answered its one request with a URL.
C23_NoRetries ==
    SigningCall =>
        /\ Len(last.out.signed) <= 1
        /\ (Len(last.out.signed) = 1 /\ ~last.in.signOK =>
                /\ last.out.err \in SigningErrors
                /\ EmptyResult)
        /\ (last.out.err # "nil" => EmptyResult)
        /\ (last.out.err = "nil" => Len(last.out.signed) = 1 /\ last.in.signOK)

\* the provider refused the one request of an upload on the restricted path
C23_Witness ==
    /\ last.op = "GenerateSignedUploadURL"
    /\ HasUploadRestrictions(gen[1])
    /\ Len(last.out.signed) = 1
    /\ ~last.in.signOK
    /\ last.out.err = "failed to generate validated upload URL"
    /\ last.out.upload = EmptyUpload

\* C24: derived leaf format.  For every input path, paths ending in a
\* separator included, the last segment of the key a successful
\* GenerateSignedUploadURL or GenerateSignedUploadURLWithBucket returns is 8
\* characters from 0-9a-f, then "_", then the input's leaf: everything after
\* the input's final separator, unchanged.
C24_DerivedLeaf ==
    DerivedUpload =>
        LET leaf == LastSegment(last.out.upload.GeneratedKey)
            given == LastSegment(last.in.objectName)
        IN  /\ Len(leaf) = 9 + Len(given)
            /\ \A i \in 1..8 : leaf[i] \in HexCharacters
            /\ leaf[9] = "_"
            /\ SubSeq(leaf, 10, Len(leaf)) = given

\* the bytes of one megabyte: 1,048,576
BytesPerMB == Mul64(I64(1024), I64(1024))

\* MaxFileSizeBytes is MaxFileSizeMB times 1,048,576, as integers
SizePair(policy) ==
    /\ ~IsNeg64(policy.MaxFileSizeMB)
    /\ ~IsNeg64(policy.MaxFileSizeBytes)
    /\ Widen(policy.MaxFileSizeBytes, 16) = MulExact(policy.MaxFileSizeMB, BytesPerMB)

\* C25, for the policies generators hold: MaxFileSizeBytes equals
\* MaxFileSizeMB x 1,048,576, policies the caller built with only
\* MaxFileSizeMB set included.
C25_GeneratorSizePair ==
    ConstructorSucceeded => SizePair(GetUploadRestrictions(gen[1]))

\* C25: the size pair invariant.  For every policy a generator holds and
\* every policy NewUploadRestrictionsFromEnv returns, MaxFileSizeBytes
\* equals MaxFileSizeMB x 1,048,576, whatever GCS_MAX_FILE_SIZE_MB is.
C25_SizePair ==
    /\ C25_GeneratorSizePair
    /\ (PolicyBuilt /\ last.out # <<>> => SizePair(last.out[1]))

\* C26: unrestricted uploads are plain.  On a generator whose policy is not
\* active (HasUploadRestrictions() is false) GenerateSignedUploadURL and
\* GenerateSignedUploadURLWithBucket never return the extension error, and
\* whenever the key was derived and a signing identity is loaded they send
\* one PUT request with content type application/octet-stream and no
\* headers, whatever the filename's extension.  (Every policy that is not
\* active in the sense of ActivePolicy has HasUploadRestrictions() false.)
C26_UnrestrictedPlain ==
    (last.op \in DerivingUploads /\ ~HasUploadRestrictions(gen[1])) =>
        /\ last.out.err # ExtensionError
        /\ (~last.in.rnd.err /\ gen[1].svcAccount # <<>>) => Len(last.out.signed) = 1
        /\ \A i \in 1..Len(last.out.signed) :
              /\ last.out.signed[i].Method = "PUT"
              /\ last.out.signed[i].ContentType = "application/octet-stream"
              /\ last.out.signed[i].Headers = <<>>

\* "a.pdf" uploaded through a generator without an active policy
C26_Witness ==
    /\ last.op \in DerivingUploads
    /\ ~HasUploadRestrictions(gen[1])
    /\ ~ActivePolicy(GetUploadRestrictions(gen[1]))
    /\ last.in.objectName = <<"a", ".", "p", "d", "f">>
    /\ last.out.err = "nil"
    /\ last.out.signed[1].ContentType = "application/octet-stream"

\* the upload calls that sign on the restricted path when the policy is active
RestrictedSigners == DerivingUploads \cup {"GenerateSignedUploadURLWithOriginalName"}

\* the last operation sent a request on the restricted signing path
SignedRestricted ==
    /\ last.op \in RestrictedSigners
    /\ HasUploadRestrictions(gen[1])
    /\ last.out.signed # <<>>

\* C27: content-type resolution.  getContentTypeFromExtension is a total
\* lookup: each of the table's 18 extensions gives its listed type and every
\* other string, the empty one included, gives application/octet-stream.
\* On the restricted signing path the request's content type is this lookup
\* applied to the lowercased extension of the object key that is signed.
C27_ContentType ==
    /\ Cardinality(DOMAIN ContentTypes) = 18
    /\ last.op = "getContentTypeFromExtension" =>
          last.out = IF last.in.ext \in DOMAIN ContentTypes
                     THEN ContentTypes[last.in.ext]
                     ELSE "application/octet-stream"
    /\ SignedRestricted =>
          last.out.signed[1].ContentType =
              getContentTypeFromExtension(ToLower(ExtensionOf(last.out.signed[1].object)))

\* "A.PDF" signed on the restricted path with application/pdf
C27_Witness ==
    /\ SignedRestricted
    /\ last.op = "GenerateSignedUploadURL"
    /\ last.in.objectName = <<"A", ".", "P", "D", "F">>
    /\ ExtensionOf(last.out.signed[1].object) = <<".", "P", "D", "F">>
    /\ last.out.signed[1].ContentType = "application/pdf"

\* the value of GCS_ALLOWED_FILE_EXTENSIONS the last operation read
ExtensionsValue == last.in.env.GCS_ALLOWED_FILE_EXTENSIONS

\* the entry the claim gives a comma-separated field: trimmed of surrounding
\* whitespace, prefixed with "." unless it starts with one, lowercased
ClaimedEntry(field) ==
    LET trimmed == TrimSpace(field)
    IN  ToLower(IF trimmed # <<>> /\ Head(trimmed) = "." THEN trimmed
                ELSE <<".">> \o trimmed)

\* the list the claim gives a value: one entry per field, in order
ClaimedList(value) ==
    LET fields == Split(value, ",")
    IN  [i \in 1..Len(fields) |-> ClaimedEntry(fields[i])]

\* a generator holding policy accepts filename
Accepts(policy, filename) ==
    ValidateUpload([uploadRestrictions |-> policy], filename) = "nil"

\* the policy returned by the last NewUploadRestrictionsFromEnv holds the
\* claimed list, and accepts exactly the filenames whose lowercased extension
\* is an entry of it
NormalisedList ==
    /\ last.out[1].AllowedExtensions = ClaimedList(ExtensionsValue)
    /\ \A filename \in AllPaths :
          Accepts(last.out[1], filename) <=>
              \E i \in 1..Len(ClaimedList(ExtensionsValue)) :
                  ToLower(ExtensionOf(filename)) = ClaimedList(ExtensionsValue)[i]

\* C28 as stated: environment extension-list normalisation, for every value
\* of GCS_ALLOWED_FILE_EXTENSIONS.
C28_EveryValue ==
    (PolicyBuilt /\ last.out # <<>>) => NormalisedList

\* C28: environment extension-list normalisation, for every non-empty value
\* of GCS_ALLOWED_FILE_EXTENSIONS: each entry of AllowedExtensions is the
\* comma-separated field trimmed, dot-prefixed if needed and lowercased, one
\* entry per field in order, and a filename is accepted exactly when its
\* lowercased extension is one of the entries.  For the empty value the list
\* is empty and every filename is accepted.
C28_NonEmptyValue ==
    (PolicyBuilt /\ last.out # <<>>) =>
        IF ExtensionsValue # <<>> THEN NormalisedList
        ELSE /\ last.out[1].AllowedExtensions = <<>>
             /\ \A filename \in AllPaths : Accepts(last.out[1], filename)

\* "PDF, .Jpg" has given the list .pdf, .jpg
C28_Witness ==
    /\ PolicyBuilt
    /\ ExtensionsValue = <<"P", "D", "F", ",", " ", ".", "J", "p", "g">>
    /\ last.out # <<>>
    /\ last.out[1].AllowedExtensions = <<<<".", "p", "d", "f">>, <<".", "j", "p", "g">>>>
    /\ Accepts(last.out[1], <<"A", ".", "P", "D", "F">>)
    /\ ~Accepts(last.out[1], <<"d", "/", "f">>)

\* the error the claimed order of checks gives the last upload call: key
\* derivation, then extension validation, then credential lookup, then
\* signing
FirstFailure ==
    IF last.in.rnd.err THEN DerivationError
    ELSE IF Disallowed(GetUploadRestrictions(gen[1]), last.in.objectName) THEN ExtensionError
    ELSE IF gen[1].svcAccount = <<>> THEN CredentialError
    ELSE IF ~last.in.signOK
    THEN IF HasUploadRestrictions(gen[1]) THEN "failed to generate validated upload URL"
         ELSE "failed to generate signed upload URL"
    ELSE "nil"

\* C29: error precedence on upload.  GenerateSignedUploadURL and
\* GenerateSignedUploadURLWithBucket return the error of the first check
\* that fails in the order key derivation, extension validation, credential
\* lookup, signing; the provider is asked only when the first three passed.
\* A disallowed extension on a generator without a signing identity gives
\* the validation error, and a failing entropy source gives the derivation
\* error with nothing validated or signed.
C29_ErrorPrecedence ==
    last.op \in DerivingUploads =>
        /\ last.out.err = FirstFailure
        /\ Len(last.out.signed) =
              IF FirstFailure \in {DerivationError, ExtensionError, CredentialError}
              THEN 0 ELSE 1

\* a disallowed extension met a generator without a signing identity
C29_Witness ==
    /\ last.op \in DerivingUploads
    /\ ~last.in.rnd.err
    /\ gen[1].svcAccount = <<>>
    /\ Disallowed(GetUploadRestrictions(gen[1]), last.in.objectName)
    /\ last.out.err = ExtensionError
    /\ last.out.signed = <<>>

\* an allow-list entry of the usual form: "." followed by one or more
\* characters other than "." and the separator
PlainEntry(entry) ==
    /\ Len(entry) >= 2
    /\ entry[1] = "."
    /\ \A i \in 2..Len(entry) : entry[i] \notin {".", "/"}

\* the policy has a non-empty allow-list of plain entries
PlainAllowList(policy) ==
    /\ Len(policy.AllowedExtensions) > 0
    /\ \A i \in 1..Len(policy.AllowedExtensions) : PlainEntry(policy.AllowedExtensions[i])

\* C30: the allow-list binds the signed key.  On a generator whose
\* allow-list is non-empty and holds only entries of the form "." plus
\* characters other than "." and "/", whenever GenerateSignedUploadURL or
\* GenerateSignedUploadURLWithBucket succeeds, the lowercased extension of
\* GeneratedKey, which is the object name that was signed, is an element of
\* the allow-list.
C30_KeyInAllowList ==
    (DerivedUpload /\ PlainAllowList(GetUploadRestrictions(gen[1]))) =>
        /\ last.out.signed[1].object = last.out.upload.GeneratedKey
        /\ InAllowList(GetUploadRestrictions(gen[1]), last.out.upload.GeneratedKey)

\* an allowed filename inside a directory was signed under a derived key
C30_Witness ==
    /\ DerivedUpload
    /\ PlainAllowList(GetUploadRestrictions(gen[1]))
    /\ HasSeparator(last.in.objectName)
    /\ last.out.upload.GeneratedKey # last.in.objectName
    /\ InAllowList(GetUploadRestrictions(gen[1]), last.out.upload.GeneratedKey)
====
